---- MODULE Spec2Model ----
(***************************************************************************)
(* One evaluation of a debugging trace by app/services/qa_pipeline.py:     *)
(* run_qa_pipeline -> run_tests_in_docker (clone, apply_diffs, build,      *)
(* test candidates, cleanup) -> evaluate_reasoning_with_llm -> QAResult.   *)
(* External processes, the file system, the model service and the          *)
(* database are the environment: each call draws its outcome from a small  *)
(* set.  Scores are floats in the code; here they are tenths (25 = 2.5).   *)
(* The functions of the module that are called with arguments the pipeline *)
(* model keeps small (one edit, one container, one list of events with     *)
(* timestamps) have specifications of their own: arg holds the arguments   *)
(* of the call and ret what the call returned.                             *)
(***************************************************************************)
EXTENDS Integers, Sequences, FiniteSets, TLC

VARIABLES events, pc, temp_dir, sandbox, files, i, image, c, exit_code,
          test_output, result, cleanup, evaluation_result, requests,
          qa_result, stored, error, log, arg, ret, trace, http_response,
          host, event_loop, worker

vars == <<events, pc, temp_dir, sandbox, files, i, image, c, exit_code,
          test_output, result, cleanup, evaluation_result, requests,
          qa_result, stored, error, log, arg, ret, trace, http_response,
          host, event_loop, worker>>

\* ------------------------------------------------------------------ bounds
\* Longest list of events of a trace.
MaxEvents == 2

\* --------------------------------------------------------- program constants
CloneTimeout == 60
BuildTimeout == 300
TestTimeout == 300
RmiTimeout == 10
CommandNotFound == 127
TimedOutExitCode == 1
NoCommandExitCode == 1
NeutralScore == 25
FailedScore == 0
MinScore == 10
MaxScore == 50

\* Value of a Python local that holds None.
None == "None"
\* subprocess.run called without a timeout argument.
NoTimeout == 0
\* exit_code before run_tests_in_container has returned.
Unset == -1
\* A JSON value in a number position that float() rejects.
NonNumeric == -999

Range(s) == { s[k] : k \in DOMAIN s }

\* ------------------------------------------------------------ environment
\* What an external process can do when it is started with subprocess.run:
\* exit 0, exit non-zero, never exit, or fail to start (OSError).
ProcOutcomes == {"ok", "nonzero", "never", "oserror"}

\* What a file-system call or a database call can do.
FsOutcomes == {"ok", "oserror"}
DbOutcomes == {"ok", "error"}

\* subprocess.run(..., timeout=t): a process that never exits raises
\* TimeoutExpired when a timeout is given and is waited for forever when
\* none is given.
Run(outcome, timeout) ==
    IF outcome = "never"
    THEN IF timeout = NoTimeout THEN "blocked" ELSE "timeout"
    ELSE outcome

\* ------------------------------------------------------------------ events
\* event.details is stored text.  It is modelled as the JSON object it
\* decodes to, or as [raw |-> text] when json.loads rejects the text.
\* A diff is a sequence of characters.
HunkDiff == <<"@", "@", "-">>
PlainDiff == <<"x">>

EditDetails ==
    { [file |-> "a.py", diff |-> HunkDiff, change |-> "body"],
      [file |-> "a.py", diff |-> PlainDiff, change |-> "body"],
      [raw |-> "not json"] }

Events ==
    { [event_type |-> "reasoning", details |-> [text |-> "t"]],
      [event_type |-> "command", details |-> [command |-> "c"]] }
    \cup { [event_type |-> "edit", details |-> d] : d \in EditDetails }

EventLists == UNION { [1..n -> Events] : n \in 0..MaxEvents }

\* json.loads(event.details)
JsonLoads(details) ==
    IF "raw" \in DOMAIN details
    THEN [ok |-> FALSE, value |-> details]
    ELSE [ok |-> TRUE, value |-> details]

\* details.get(key, "")
Get(details, key, default) ==
    IF key \in DOMAIN details THEN details[key] ELSE default

\* diff.startswith("@@")
StartsWithHunk(diff) ==
    /\ Len(diff) >= 2
    /\ diff[1] = "@"
    /\ diff[2] = "@"

\* ------------------------------------------------------------- file system
Markers == {"Dockerfile", "package.json", "requirements.txt", "pom.xml"}
Paths == Markers \cup {"a.py", ".patch"}
Absent == "absent"
EmptyFs == [p \in Paths |-> Absent]

\* The checkout a successful clone leaves in the sandbox.
Checkout(present) ==
    [p \in Paths |-> IF p \in present \/ p = "a.py" THEN "repo" ELSE Absent]

\* History: the stages in the order in which they were first started, with
\* "clone ok" and "build ok" marking that the stage returned normally,
\* "docker build" that the image build was started and
\* "outcome" that run_tests_in_docker returned its pair.
Logged(l, name) == IF name \in Range(l) THEN l ELSE Append(l, name)
Started(name) == name \in Range(log)
Index(name) == CHOOSE k \in DOMAIN log : log[k] = name

NoResult == [tests_passed |-> FALSE, test_output |-> <<>>]
NoCleanup == [rmi |-> "none", rmtree |-> "none"]
NoRecord == [trace_id |-> "none"]

\* The Trace row the pipeline is run for, and the row of no trace.
PendingTrace == [trace_id |-> "t", status |-> "pending"]
NoTrace == [trace_id |-> "none", status |-> "none"]

\* No request has been answered.
NoResponse == [code |-> 0]

\* The machine the service runs on: the sandbox directories that exist and
\* the evaluation whose build each image name was last given to (0: the
\* name is not in use).  None while one evaluation is looked at alone.
EmptyHost == [dirs |-> {}, tags |-> <<>>]

Init ==
    /\ events \in EventLists
    /\ pc = "start"
    /\ temp_dir = None
    /\ sandbox = "none"
    /\ files = EmptyFs
    /\ i = 1
    /\ image = "none"
    /\ c = 1
    /\ exit_code = Unset
    /\ test_output = <<>>
    /\ result = NoResult
    /\ cleanup = NoCleanup
    /\ evaluation_result = NoRecord
    /\ requests = <<>>
    /\ qa_result = NoRecord
    /\ stored = {}
    /\ trace = PendingTrace
    /\ http_response = NoResponse
    /\ host = EmptyHost
    /\ event_loop = <<>>
    /\ worker = <<>>
    /\ error = <<>>
    /\ log = <<>>
    /\ arg = <<>>
    /\ ret = <<>>

\* ------------------------------------------------------ run_tests_in_docker
\* An exception reaching the except clause of run_tests_in_docker.
Raise(msg) ==
    /\ pc' = "except"
    /\ error' = msg

\* clone_repository: what the git clone outcome turns into.
CloneResult(r) ==
    CASE r = "ok"      -> [raises |-> FALSE, msg |-> <<>>]
      [] r = "nonzero" -> [raises |-> TRUE,
                           msg |-> <<"Failed to clone repository: ", "stderr">>]
      [] r = "timeout" -> [raises |-> TRUE,
                           msg |-> <<"Repository clone timed out">>]
      [] OTHER         -> [raises |-> TRUE, msg |-> <<"OSError">>]

\* The value run_tests_in_docker's temp_dir holds after the call of
\* clone_repository: assigned only when the call returns.
TempDirAfterClone(raises) == IF raises THEN None ELSE "d"

\* Variant: edits are applied whether or not the clone succeeded.
AfterCloneAlwaysApply(raises) == "apply"

\* run_tests_in_docker: the statement reached after clone_repository.
AfterClone(raises) == IF raises THEN "except" ELSE "apply"

CloneRepository ==
    /\ pc = "start"
    /\ \E mk \in FsOutcomes, out \in ProcOutcomes, present \in SUBSET Markers :
         IF mk = "oserror"
         THEN /\ Raise(<<"OSError">>)
              /\ log' = Logged(log, "clone")
              /\ UNCHANGED <<temp_dir, sandbox, files>>
         ELSE LET res == CloneResult(Run(out, CloneTimeout)) IN
              /\ sandbox' = "exists"
              /\ temp_dir' = TempDirAfterClone(res.raises)
              /\ pc' = AfterClone(res.raises)
              /\ IF res.raises
                 THEN /\ error' = res.msg
                      /\ files' = EmptyFs
                      /\ log' = Logged(log, "clone")
                 ELSE /\ error' = error
                      /\ files' = Checkout(present)
                      /\ log' = Logged(Logged(log, "clone"), "clone ok")
    /\ UNCHANGED <<arg, ret, events, trace, http_response, host, event_loop,
                   worker, i, image, c,
                   exit_code, test_output, result,
                   cleanup, evaluation_result, requests, qa_result, stored>>

\* apply_diffs, one iteration of its loop: the effect of events[i] on the
\* sandbox.  mk, pw, rm, fw are the outcomes of makedirs, of writing the
\* patch file, of removing it and of opening the target file; git is the
\* outcome of "git apply", which is run without a timeout.
\* Returns the files afterwards, whether the call is still waiting and
\* whether an exception leaves apply_diffs.
GitApplyTimeout == NoTimeout

\* Variant: an exception of one edit is not caught and leaves apply_diffs.
OnEditErrorRaises(fs) == [files |-> fs, blocked |-> FALSE, raises |-> TRUE]

\* "except Exception as e: print(...); continue" around one edit.
OnEditError(fs) == [files |-> fs, blocked |-> FALSE, raises |-> FALSE]

\* Variant: the direct write is the placeholder of the patch branch.
WriteChangePlaceholder(fs, file_path, change) ==
    [fs EXCEPT ![file_path] = "empty"]

\* with open(full_path, "w") as f: f.write(details["change"])
WriteChange(fs, file_path, change) == [fs EXCEPT ![file_path] = change]

ApplyEdit(fs, event, mk, pw, git, rm, fw) ==
    LET same == [files |-> fs, blocked |-> FALSE, raises |-> FALSE]
        loaded == JsonLoads(event.details)
        details == loaded.value
        file_path == Get(details, "file", "")
        diff == Get(details, "diff", <<>>)
        r == Run(git, GitApplyTimeout)
        written == [fs EXCEPT ![".patch"] = "diff"]
        \* the bare except of the patch branch: open the target for
        \* writing and write nothing
        fallback(f) == IF "change" \in DOMAIN details
                       THEN IF fw = "ok"
                            THEN [files |-> [f EXCEPT ![file_path] = "empty"],
                                  blocked |-> FALSE, raises |-> FALSE]
                            ELSE OnEditError(f)
                       ELSE [files |-> f, blocked |-> FALSE, raises |-> FALSE]
    IN
    IF event.event_type # "edit" THEN same
    ELSE IF ~loaded.ok THEN OnEditError(fs)
    ELSE IF file_path = "" \/ diff = <<>> THEN same
    ELSE IF mk = "oserror" THEN OnEditError(fs)
    ELSE IF StartsWithHunk(diff)
         THEN IF pw = "oserror" THEN fallback(fs)
              ELSE IF r = "blocked"
                   THEN [files |-> written, blocked |-> TRUE, raises |-> FALSE]
              ELSE IF r = "oserror" THEN fallback(written)
              ELSE LET applied == IF r = "ok"
                                  THEN [written EXCEPT ![file_path] = "patched"]
                                  ELSE written
                   IN IF rm = "oserror" THEN fallback(applied)
                      ELSE [files |-> [applied EXCEPT ![".patch"] = Absent],
                            blocked |-> FALSE, raises |-> FALSE]
         ELSE IF "change" \in DOMAIN details
              THEN IF fw = "ok"
                   THEN [files |-> WriteChange(fs, file_path, details.change),
                         blocked |-> FALSE, raises |-> FALSE]
                   ELSE OnEditError(fs)
              ELSE same

ApplyDiff ==
    /\ pc = "apply"
    /\ i <= Len(events)
    /\ \E mk \in FsOutcomes, pw \in FsOutcomes, git \in ProcOutcomes,
          rm \in FsOutcomes, fw \in FsOutcomes :
         LET res == ApplyEdit(files, events[i], mk, pw, git, rm, fw) IN
         /\ files' = res.files
         /\ pc' = IF res.raises THEN "except"
                  ELSE IF res.blocked THEN "blocked" ELSE "apply"
         /\ error' = IF res.raises THEN <<"Exception">> ELSE error
         /\ i' = IF res.blocked \/ res.raises THEN i ELSE i + 1
    /\ log' = Logged(log, "edit")
    /\ UNCHANGED <<arg, ret, events, trace, http_response, host, event_loop,
                   worker, temp_dir, sandbox,
                   image, c, exit_code,
                   test_output, result, cleanup, evaluation_result,
                   requests, qa_result, stored>>

\* Variant: a Dockerfile is synthesized whether or not one exists.
NeedsDockerfileAlways(fs) == TRUE

\* if not os.path.exists(dockerfile_path)
NeedsDockerfile(fs) == fs["Dockerfile"] = Absent

\* Variant: requirements.txt is probed before package.json.
DetectProjectPythonFirst(fs) ==
    IF fs["requirements.txt"] # Absent THEN "python"
    ELSE IF fs["package.json"] # Absent THEN "node"
    ELSE IF fs["pom.xml"] # Absent THEN "maven"
    ELSE "none"

\* build_docker_container: the Dockerfile to synthesize, by the first
\* marker present; "none" when no marker is present.
DetectProject(fs) ==
    IF fs["package.json"] # Absent THEN "node"
    ELSE IF fs["requirements.txt"] # Absent THEN "python"
    ELSE IF fs["pom.xml"] # Absent THEN "maven"
    ELSE "none"

\* build_docker_container: what the docker build outcome turns into.
BuildResult(r) ==
    CASE r = "ok"      -> [raises |-> FALSE, msg |-> <<>>]
      [] r = "nonzero" -> [raises |-> TRUE,
                           msg |-> <<"Failed to build Docker image: ", "stderr">>]
      [] r = "timeout" -> [raises |-> TRUE, msg |-> <<"Docker build timed out">>]
      [] OTHER         -> [raises |-> TRUE, msg |-> <<"OSError">>]

\* Variant: the test run is entered whether or not the build succeeded.
AfterBuildAlwaysTest(raises) == "test"

\* run_tests_in_docker: the statement reached after build_docker_container.
AfterBuild(raises) == IF raises THEN "except" ELSE "test"

BuildDockerContainer ==
    /\ pc = "apply"
    /\ i > Len(events)
    /\ \E w \in FsOutcomes, out \in ProcOutcomes :
         LET project == DetectProject(files)
             res == BuildResult(Run(out, BuildTimeout))
         IN
         IF NeedsDockerfile(files) /\ project = "none"
         THEN /\ pc' = "except"
              /\ error' = <<"No Dockerfile found and could not auto-detect project type">>
              /\ log' = Logged(log, "build")
              /\ UNCHANGED <<files, image>>
         ELSE IF NeedsDockerfile(files) /\ w = "oserror"
         THEN /\ pc' = "except"
              /\ error' = <<"OSError">>
              /\ log' = Logged(log, "build")
              /\ UNCHANGED <<files, image>>
         ELSE /\ files' = IF NeedsDockerfile(files)
                          THEN [files EXCEPT !["Dockerfile"] = project]
                          ELSE files
              /\ pc' = AfterBuild(res.raises)
              /\ error' = IF res.raises THEN res.msg ELSE error
              /\ image' = IF res.raises THEN image ELSE "built"
              /\ log' = LET started == Logged(Logged(log, "build"), "docker build")
                        IN IF res.raises THEN started
                           ELSE Logged(started, "build ok")
    /\ UNCHANGED <<arg, ret, events, trace, http_response, host, event_loop,
                   worker, temp_dir, sandbox,
                   i, c, exit_code,
                   test_output, result, cleanup, evaluation_result, requests,
                   qa_result, stored>>

\* run_tests_in_container
test_commands ==
    << "npm test", "python -m pytest", "pytest",
       "python -m unittest discover", "mvn test", "make test", "./test.sh" >>

\* What "docker run ... sh -c cmd" can do: the outcomes of a process, and
\* exit code 127 when the shell does not find the command.
RunOutcomes == ProcOutcomes \cup {"notfound"}
FailingExitCode == 2

returncode(r) ==
    CASE r = "ok"       -> 0
      [] r = "notfound" -> CommandNotFound
      [] OTHER          -> FailingExitCode

\* Variant: TimeoutExpired is not caught inside run_tests_in_container.
CandidateResultTimeoutRaises(r) ==
    CASE r = "timeout" ->
           [returns |-> FALSE, raises |-> TRUE, exit_code |-> Unset,
            output |-> <<>>]
      [] r = "oserror" ->
           [returns |-> FALSE, raises |-> FALSE, exit_code |-> Unset,
            output |-> <<>>]
      [] OTHER ->
           IF returncode(r) # CommandNotFound
           THEN [returns |-> TRUE, raises |-> FALSE,
                 exit_code |-> returncode(r),
                 output |-> <<"stdout", "stderr">>]
           ELSE [returns |-> FALSE, raises |-> FALSE, exit_code |-> Unset,
                 output |-> <<>>]

\* Variant: TimeoutExpired is handled like any other exception of the
\* candidate, by going on with the next one.
CandidateResultTimeoutContinues(r) ==
    CASE r \in {"timeout", "oserror"} ->
           [returns |-> FALSE, raises |-> FALSE, exit_code |-> Unset,
            output |-> <<>>]
      [] OTHER ->
           IF returncode(r) # CommandNotFound
           THEN [returns |-> TRUE, raises |-> FALSE,
                 exit_code |-> returncode(r),
                 output |-> <<"stdout", "stderr">>]
           ELSE [returns |-> FALSE, raises |-> FALSE, exit_code |-> Unset,
                 output |-> <<>>]

\* Variant: exit code 127 is returned like any other exit code.
CandidateResultReturns127(r) ==
    CASE r = "timeout" ->
           [returns |-> TRUE, raises |-> FALSE, exit_code |-> TimedOutExitCode,
            output |-> <<"Test execution timed out">>]
      [] r = "oserror" ->
           [returns |-> FALSE, raises |-> FALSE, exit_code |-> Unset,
            output |-> <<>>]
      [] OTHER ->
           [returns |-> TRUE, raises |-> FALSE, exit_code |-> returncode(r),
            output |-> <<"stdout", "stderr">>]

\* One iteration of the loop over test_commands: return a pair, or go on
\* with the next candidate.
CandidateResult(r) ==
    CASE r = "timeout" ->
           [returns |-> TRUE, raises |-> FALSE, exit_code |-> TimedOutExitCode,
            output |-> <<"Test execution timed out">>]
      [] r = "oserror" ->
           [returns |-> FALSE, raises |-> FALSE, exit_code |-> Unset,
            output |-> <<>>]
      [] OTHER ->
           IF returncode(r) # CommandNotFound
           THEN [returns |-> TRUE, raises |-> FALSE,
                 exit_code |-> returncode(r),
                 output |-> <<"stdout", "stderr">>]
           ELSE [returns |-> FALSE, raises |-> FALSE, exit_code |-> Unset,
                 output |-> <<>>]

\* Variant: all candidates unresolvable counts as a passing run.
AllCandidatesFailedPasses ==
    [exit_code |-> 0,
     output |-> <<"No test command found or all test commands failed">>]

\* The return after the loop over test_commands.
AllCandidatesFailed ==
    [exit_code |-> NoCommandExitCode,
     output |-> <<"No test command found or all test commands failed">>]

\* The loop body for the candidate test_commands[c], whose process does out.
TryCandidate(out) ==
    LET res == CandidateResult(Run(out, TestTimeout)) IN
    /\ log' = Logged(log, "test")
    /\ IF res.raises
       THEN /\ Raise(<<"TimeoutExpired">>)
            /\ c' = 1
            /\ UNCHANGED <<exit_code, test_output>>
       ELSE IF res.returns
       THEN /\ exit_code' = res.exit_code
            /\ test_output' = res.output
            /\ pc' = "rmi"
            /\ c' = 1
            /\ error' = error
       ELSE IF c < Len(test_commands)
       THEN /\ c' = c + 1
            /\ UNCHANGED <<pc, exit_code, test_output, error>>
       ELSE /\ exit_code' = AllCandidatesFailed.exit_code
            /\ test_output' = AllCandidatesFailed.output
            /\ pc' = "rmi"
            /\ c' = 1
            /\ error' = error
    /\ UNCHANGED <<events, trace, http_response, host, event_loop, worker,
                   temp_dir, sandbox, files, i,
                   image, result,
                   cleanup, evaluation_result, requests, qa_result, stored>>

RunTestCandidate ==
    /\ pc = "test"
    /\ c <= Len(test_commands)
    /\ \E out \in RunOutcomes : TryCandidate(out)
    /\ UNCHANGED <<arg, ret>>

\* Variant: a failing "docker rmi" is not caught.
RmiResultRaises(r) == IF r \in {"timeout", "oserror"} THEN "raise" ELSE "pass"

\* The try/except around "docker rmi": every outcome is ignored.
RmiResult(r) == "pass"

\* Step 5 and 6 of run_tests_in_docker: remove the image, then return
\* (exit_code == 0, test_output).
RemoveImage ==
    /\ pc = "rmi"
    /\ log' = Logged(log, "rmi")
    /\ \E out \in ProcOutcomes :
         LET r == Run(out, RmiTimeout) IN
         /\ cleanup' = [cleanup EXCEPT !.rmi = r]
         /\ image' = IF r = "ok" THEN "removed" ELSE image
         /\ IF RmiResult(r) = "pass"
            THEN /\ result' = [tests_passed |-> exit_code = 0,
                               test_output |-> test_output]
                 /\ pc' = "finally"
                 /\ error' = error
            ELSE /\ Raise(<<"rmi failed">>)
                 /\ result' = result
    /\ UNCHANGED <<arg, ret, events, trace, http_response, host, event_loop,
                   worker, temp_dir, sandbox,
                   files, i, c, exit_code,
                   test_output, evaluation_result, requests, qa_result,
                   stored>>

\* The except clause of run_tests_in_docker.
ErrorOutcome(msg) ==
    [tests_passed |-> FALSE, test_output |-> <<"Error running tests: ">> \o msg]

ExceptClause ==
    /\ pc = "except"
    /\ result' = ErrorOutcome(error)
    /\ pc' = "finally"
    /\ UNCHANGED <<arg, ret, events, trace, http_response, host, event_loop,
                   worker, temp_dir, sandbox,
                   files, i, image, c, exit_code,
                   test_output, cleanup, evaluation_result, requests,
                   qa_result, stored, error, log>>

\* The try/except around shutil.rmtree: every outcome is ignored.
RmtreeResult(r) == "pass"

\* The finally clause of run_tests_in_docker, after which the pair is
\* returned to run_qa_pipeline and the locals of run_tests_in_docker
\* (temp_dir, i, exit_code, test_output, the view of the sandbox through
\* temp_dir) are gone.
FinallyClause ==
    /\ pc = "finally"
    /\ IF temp_dir # None /\ sandbox = "exists"
       THEN \E out \in FsOutcomes :
              /\ cleanup' = [cleanup EXCEPT !.rmtree = out]
              /\ sandbox' = IF out = "ok" THEN "removed" ELSE sandbox
              /\ IF RmtreeResult(out) = "pass"
                 THEN /\ pc' = "judge"
                      /\ error' = <<>>
                      /\ log' = Logged(Logged(log, "rmtree"), "outcome")
                 ELSE /\ pc' = "handler"
                      /\ error' = <<"rmtree failed">>
                      /\ log' = Logged(log, "rmtree")
       ELSE /\ pc' = "judge"
            /\ error' = <<>>
            /\ log' = Logged(log, "outcome")
            /\ UNCHANGED <<cleanup, sandbox>>
    /\ temp_dir' = None
    /\ files' = EmptyFs
    /\ i' = 1
    /\ exit_code' = Unset
    /\ test_output' = <<>>
    /\ UNCHANGED <<arg, ret, events, trace, http_response, host, event_loop,
                   worker, image, c, result,
                   evaluation_result, requests,
                   qa_result, stored>>

\* ------------------------------------------------- the model and its replies
\* Text is a sequence of strings, so that an f-string is a concatenation.
EmptyDict == [k \in {} |-> 0]
RawScores == {0, 30, 70}

FullObject(score, sub) ==
    [detailed_scores |-> [hypothesis_quality |-> sub],
     reasoning_score |-> score,
     judge_comments |-> <<"comments">>,
     strengths |-> <<"s">>,
     weaknesses |-> <<"w">>,
     recommendations |-> <<"r">>]

\* The JSON objects the model may answer with: well-formed with scores in
\* or out of range, a score that is not a number, a missing key.
ModelObjects ==
    { FullObject(s, s) : s \in RawScores }
    \cup { FullObject(NonNumeric, 30),
           [judge_comments |-> <<"comments">>],
           [reasoning_score |-> 30] }

JsonArray == [json_array |-> <<>>]
IsDict(v) == "json_array" \notin DOMAIN v

\* The score and the commentary that a text which is not JSON spells out
\* all the same, as in: reasoning_score: 3.0, judge_comments: comments
Spelled == [reasoning_score |-> 30, judge_comments |-> <<"comments">>]

\* message.content: text that is a JSON object, a JSON array or no JSON
\* (with or without a score and commentary spelled in it), possibly
\* wrapped in a markdown code fence.
Contents ==
    { [fence |-> f, json |-> "object", value |-> o] :
        f \in BOOLEAN, o \in ModelObjects }
    \cup { [fence |-> f, json |-> j, value |-> JsonArray] :
        f \in BOOLEAN, j \in {"array", "invalid"} }
    \cup { [fence |-> f, json |-> "invalid", value |-> Spelled] :
        f \in BOOLEAN }

\* What a request to the model can do: answer with content, fail with
\* AttributeError (the parse API is not available), or fail otherwise.
ModelOutcomes ==
    { [kind |-> k, content |-> [fence |-> FALSE, json |-> "invalid",
                                value |-> JsonArray]] :
        k \in {"attribute_error", "error"} }
    \cup { [kind |-> "content", content |-> x] : x \in Contents }

\* json.loads of a text: the value, or JSONDecodeError.
Loads(content) ==
    IF content.fence \/ content.json = "invalid"
    THEN [ok |-> FALSE, value |-> JsonArray, msg |-> <<"JSONDecodeError">>]
    ELSE [ok |-> TRUE, value |-> content.value, msg |-> <<>>]

\* max(1.0, min(5.0, x))
Min(a, b) == IF a <= b THEN a ELSE b
Max(a, b) == IF a >= b THEN a ELSE b
Clamp(x) == Max(MinScore, Min(MaxScore, x))

ParseFailureDefault(msg) ==
    [detailed_scores |-> EmptyDict,
     reasoning_score |-> NeutralScore,
     judge_comments |-> <<"Failed to parse LLM response: ">> \o msg,
     strengths |-> <<>>,
     weaknesses |-> <<"Response parsing failed">>,
     recommendations |-> <<>>]

\* parse_enhanced_response: strips the code fence, decodes, clamps.
\* ok = FALSE when an exception other than JSONDecodeError leaves it.
parse_enhanced_response(response) ==
    LET stripped == [response EXCEPT !.fence = FALSE]
        loaded == Loads(stripped)
        data == loaded.value
        detailed_scores == Get(data, "detailed_scores", EmptyDict)
        raw == Get(data, "reasoning_score", NeutralScore)
    IN
    IF ~loaded.ok
    THEN [ok |-> TRUE, value |-> ParseFailureDefault(loaded.msg), msg |-> <<>>]
    ELSE IF ~IsDict(data)
    THEN [ok |-> FALSE, value |-> data, msg |-> <<"AttributeError">>]
    ELSE IF raw = NonNumeric
           \/ \E k \in DOMAIN detailed_scores : detailed_scores[k] = NonNumeric
    THEN [ok |-> FALSE, value |-> data, msg |-> <<"ValueError">>]
    ELSE [ok |-> TRUE,
          value |->
            [detailed_scores |->
               [k \in DOMAIN detailed_scores |-> Clamp(detailed_scores[k])],
             reasoning_score |-> Clamp(raw),
             judge_comments |->
               Get(data, "judge_comments", <<"No comments provided">>),
             strengths |-> Get(data, "strengths", <<>>),
             weaknesses |-> Get(data, "weaknesses", <<>>),
             recommendations |-> Get(data, "recommendations", <<>>)],
          msg |-> <<>>]

\* call_openai_api_structured: client is the outcome of creating the
\* client, t1 of the schema-constrained request, t2 of the JSON-object
\* request.  Returns the dict, or the wrapped exception, and the requests
\* that were sent.
ApiFailure(msg, sent) ==
    [ok |-> FALSE, value |-> JsonArray,
     msg |-> <<"OpenAI API call failed: ">> \o msg, requests |-> sent]

\* Variant: every failure of the schema-constrained request falls back.
SchemaModeFailed(t1) == t1.kind # "content"

\* except AttributeError: the schema-constrained mode is not available.
SchemaModeUnavailable(t1) == t1.kind = "attribute_error"

call_openai_api_structured(client, t1, t2) ==
    IF client = "error" THEN ApiFailure(<<"OpenAIError">>, <<>>)
    ELSE IF t1.kind = "content"
    THEN LET loaded == Loads(t1.content) IN
         IF loaded.ok
         THEN [ok |-> TRUE, value |-> loaded.value, msg |-> <<>>,
               requests |-> <<"json_schema">>]
         ELSE ApiFailure(loaded.msg, <<"json_schema">>)
    ELSE IF SchemaModeUnavailable(t1)
    THEN LET sent == <<"json_schema", "json_object">> IN
         IF t2.kind = "content"
         THEN LET parsed == parse_enhanced_response(t2.content) IN
              IF parsed.ok
              THEN [ok |-> TRUE, value |-> parsed.value, msg |-> <<>>,
                    requests |-> sent]
              ELSE ApiFailure(parsed.msg, sent)
         ELSE ApiFailure(<<"api error">>, sent)
    ELSE ApiFailure(<<"api error">>, <<"json_schema">>)

\* --------------------------------------------- evaluate_reasoning_with_llm
NoReasoningDefault ==
    [reasoning_score |-> NeutralScore,
     judge_comments |-> <<"No reasoning events found in trace">>,
     detailed_scores |-> EmptyDict,
     strengths |-> <<>>,
     weaknesses |-> <<"No reasoning events were recorded">>,
     recommendations |->
       <<"Consider adding reasoning events to document your thought process">>]

EvaluationFailedDefault(msg) ==
    [reasoning_score |-> NeutralScore,
     judge_comments |-> <<"LLM evaluation failed: ">> \o msg,
     detailed_scores |-> EmptyDict,
     strengths |-> <<>>,
     weaknesses |-> <<"Evaluation error: ">> \o msg,
     recommendations |-> <<>>]

\* Variant: the events are not filtered by type.
reasoning_eventsUnfiltered(evs) == DOMAIN evs

\* [e for e in trace.events if e.event_type == "reasoning"]
reasoning_events(evs) ==
    { k \in DOMAIN evs : evs[k].event_type = "reasoning" }

\* The environment of one evaluate_reasoning_with_llm call: the outcome of
\* creating the client and the reply to each request that is sent.
NoReply == [kind |-> "error",
            content |-> [fence |-> FALSE, json |-> "invalid",
                         value |-> JsonArray]]
ClientOutcomes(evs) ==
    IF reasoning_events(evs) = {} THEN {"ok"} ELSE {"ok", "error"}
Replies(sent) == IF sent THEN ModelOutcomes ELSE {NoReply}

\* evaluate_reasoning_with_llm when creating the client does client, the
\* schema-constrained request t1 and the JSON-object request t2.
Judge(client, t1, t2) ==
    LET response == call_openai_api_structured(client, t1, t2) IN
    /\ IF reasoning_events(events) = {}
       THEN /\ evaluation_result' = NoReasoningDefault
            /\ UNCHANGED <<requests, log>>
       ELSE /\ evaluation_result' =
                 IF response.ok THEN response.value
                 ELSE EvaluationFailedDefault(response.msg)
            /\ requests' = response.requests
            /\ log' = Logged(Logged(log, "chains"), "llm")
    /\ pc' = "judged"
    /\ UNCHANGED <<events, trace, http_response, host, event_loop, worker,
                   temp_dir, sandbox, files, i,
                   image, c, exit_code,
                   test_output, result, cleanup, qa_result, stored, error>>

EvaluateReasoningWithLlm ==
    /\ pc = "judge"
    /\ \E client \in ClientOutcomes(events) :
       \E t1 \in Replies(client = "ok") :
       \E t2 \in Replies(client = "ok" /\ t1.kind = "attribute_error") :
         Judge(client, t1, t2)
    /\ UNCHANGED <<arg, ret>>

\* --------------------------------------------------------- run_qa_pipeline
\* The columns of the qa_results table (app/models.py).
QAResultColumns ==
    {"trace_id", "tests_passed", "reasoning_score", "judge_comments",
     "test_output", "qa_timestamp"}

\* Variant: a constructor that accepts any keyword.
QAResultAcceptsAll(kwargs) == [ok |-> TRUE, record |-> kwargs, msg |-> <<>>]

\* QAResult(**kwargs): the declarative constructor sets the attributes that
\* are mapped by the class and raises TypeError for any other keyword.
QAResult(kwargs) ==
    IF DOMAIN kwargs \subseteq QAResultColumns
    THEN [ok |-> TRUE, record |-> kwargs, msg |-> <<>>]
    ELSE [ok |-> FALSE, record |-> NoRecord,
          msg |-> <<"invalid keyword argument for QAResult">>]

\* Lines 32-51: the keyword arguments of the result record, or the
\* exception raised while they are read from evaluation_result.
ResultKwargs(er, res) ==
    IF ~IsDict(er)
    THEN [ok |-> FALSE, kwargs |-> NoRecord, msg |-> <<"TypeError">>]
    ELSE IF "reasoning_score" \notin DOMAIN er
    THEN [ok |-> FALSE, kwargs |-> NoRecord,
          msg |-> <<"KeyError: reasoning_score">>]
    ELSE IF "judge_comments" \notin DOMAIN er
    THEN [ok |-> FALSE, kwargs |-> NoRecord,
          msg |-> <<"KeyError: judge_comments">>]
    ELSE [ok |-> TRUE,
          kwargs |->
            [trace_id |-> "t",
             tests_passed |-> IF res.tests_passed THEN 1 ELSE 0,
             reasoning_score |-> er.reasoning_score,
             judge_comments |-> er.judge_comments,
             test_output |-> res.test_output,
             qa_timestamp |-> "now",
             detailed_scores |-> Get(er, "detailed_scores", EmptyDict),
             strengths |-> Get(er, "strengths", <<>>),
             weaknesses |-> Get(er, "weaknesses", <<>>),
             recommendations |-> Get(er, "recommendations", <<>>)],
          msg |-> <<>>]

\* The try block after the judgment: build the record and store it.
AssembleResult ==
    /\ pc = "judged"
    /\ \E db \in DbOutcomes :
         LET kw == ResultKwargs(evaluation_result, result)
             made == IF kw.ok THEN QAResult(kw.kwargs)
                     ELSE [ok |-> FALSE, record |-> NoRecord, msg |-> kw.msg]
         IN
         IF ~made.ok
         THEN /\ pc' = "handler"
              /\ error' = made.msg
              /\ UNCHANGED <<qa_result, stored, log>>
         ELSE /\ log' = Logged(log, "store")
              /\ IF db = "ok"
                 THEN /\ pc' = "returned"
                      /\ qa_result' = made.record
                      /\ stored' = stored \cup {made.record}
                      /\ error' = error
                 ELSE /\ pc' = "handler"
                      /\ error' = <<"database error">>
                      /\ UNCHANGED <<qa_result, stored>>
    /\ UNCHANGED <<arg, ret, events, trace, http_response, host, event_loop,
                   worker, temp_dir, sandbox,
                   files, i, image, c, exit_code,
                   test_output, result, cleanup, evaluation_result, requests>>

\* The keyword arguments of the record built by the except clause.
FailedResult(e) ==
    [trace_id |-> "t",
     tests_passed |-> 0,
     reasoning_score |-> FailedScore,
     judge_comments |-> <<"QA pipeline failed: ">> \o e,
     test_output |-> e,
     qa_timestamp |-> "now"]

\* What a failure of db.add / db.commit / db.refresh inside the except
\* clause does: nothing catches it.
HandlerStoreResult(db) == IF db = "ok" THEN "returned" ELSE "raised"

\* The except clause of run_qa_pipeline.
ExceptHandler ==
    /\ pc = "handler"
    /\ \E db \in DbOutcomes :
         LET made == QAResult(FailedResult(error)) IN
         /\ pc' = IF made.ok THEN HandlerStoreResult(db) ELSE "raised"
         /\ IF made.ok /\ HandlerStoreResult(db) = "returned"
            THEN /\ qa_result' = made.record
                 /\ stored' = stored \cup {made.record}
            ELSE UNCHANGED <<qa_result, stored>>
    /\ log' = Logged(log, "handler")
    /\ UNCHANGED <<arg, ret, events, trace, http_response, host, event_loop,
                   worker, temp_dir, sandbox,
                   files, i, image, c, exit_code,
                   test_output, result, cleanup, evaluation_result, requests,
                   error>>

Next ==
    \/ EvaluateReasoningWithLlm
    \/ AssembleResult
    \/ ExceptHandler
    \/ CloneRepository
    \/ ApplyDiff
    \/ BuildDockerContainer
    \/ RunTestCandidate
    \/ RemoveImage
    \/ ExceptClause
    \/ FinallyClause

Spec == Init /\ [][Next]_vars

\* ------------------------------------------------------- apply_diffs alone
\* Longest list of events handed to apply_diffs alone.
MaxEdits == 2

\* Details of edit events as add_event stores them: with and without each
\* of "file", "diff" and "change", with an empty diff, and text that is
\* not JSON.
AllEditDetails ==
    { [file |-> "a.py", diff |-> d, change |-> "body"] :
        d \in {HunkDiff, PlainDiff, <<>>} }
    \cup { [file |-> "a.py", diff |-> d] : d \in {HunkDiff, PlainDiff} }
    \cup { [file |-> "a.py", change |-> "body"],
           [diff |-> PlainDiff, change |-> "body"],
           [file |-> "", diff |-> HunkDiff, change |-> "body"],
           [raw |-> "not json"] }

EditEvents == { [event_type |-> "edit", details |-> d] : d \in AllEditDetails }

ApplyEvents ==
    EditEvents \cup { [event_type |-> "command", details |-> [command |-> "c"]] }

ApplyEventLists == UNION { [1..n -> ApplyEvents] : n \in 0..MaxEdits }

\* Values of the variables that a call of one function alone does not use.
Unused ==
    /\ image = "none"
    /\ c = 1
    /\ exit_code = Unset
    /\ test_output = <<>>
    /\ result = NoResult
    /\ cleanup = NoCleanup
    /\ evaluation_result = NoRecord
    /\ requests = <<>>
    /\ qa_result = NoRecord
    /\ stored = {}
    /\ trace = PendingTrace
    /\ http_response = NoResponse
    /\ host = EmptyHost
    /\ event_loop = <<>>
    /\ worker = <<>>
    /\ error = <<>>

\* run_tests_in_docker at its call of apply_diffs: the clone has returned.
InitApply ==
    /\ events \in ApplyEventLists
    /\ pc = "apply"
    /\ temp_dir = "d"
    /\ sandbox = "exists"
    /\ files = Checkout({})
    /\ i = 1
    /\ log = <<"clone", "clone ok">>
    /\ arg = <<>>
    /\ ret = <<>>
    /\ Unused

NextApply == ApplyDiff

SpecApply == InitApply /\ [][NextApply]_vars

\* ---------------------------------------------- apply_diffs, one edit event
\* One edit event together with what the file system and git do for it.
EditCalls ==
    [event : EditEvents, mk : FsOutcomes, pw : FsOutcomes,
     git : ProcOutcomes, rm : FsOutcomes, fw : FsOutcomes]

InitEdit ==
    /\ arg \in EditCalls
    /\ ret = <<>>
    /\ events = <<>>
    /\ pc = "call"
    /\ temp_dir = "d"
    /\ sandbox = "exists"
    /\ files = Checkout({})
    /\ i = 1
    /\ log = <<"clone", "clone ok">>
    /\ Unused

\* The body of the loop of apply_diffs for the event arg.event; files keeps
\* the sandbox before the call and ret.files is the sandbox after it.
ApplyOneEdit ==
    /\ pc = "call"
    /\ LET res == ApplyEdit(files, arg.event, arg.mk, arg.pw, arg.git,
                            arg.rm, arg.fw) IN
       /\ ret' = res
       /\ pc' = IF res.raises THEN "raised"
                ELSE IF res.blocked THEN "blocked" ELSE "done"
    /\ UNCHANGED <<arg, events, trace, http_response, host, event_loop,
                   worker, temp_dir, sandbox,
                   files, i, image, c,
                   exit_code, test_output, result, cleanup,
                   evaluation_result, requests, qa_result, stored, error,
                   log>>

NextEdit == ApplyOneEdit

SpecEdit == InitEdit /\ [][NextEdit]_vars

\* ------------------------------------ run_tests_in_container and what follows
\* run_tests_in_docker at its call of run_tests_in_container, for a trace
\* without events: the clone and the image build have returned.
InitTests ==
    /\ events = <<>>
    /\ pc = "test"
    /\ temp_dir = "d"
    /\ sandbox = "exists"
    /\ files = Checkout({"Dockerfile"})
    /\ i = 1
    /\ image = "built"
    /\ c = 1
    /\ exit_code = Unset
    /\ test_output = <<>>
    /\ result = NoResult
    /\ cleanup = NoCleanup
    /\ evaluation_result = NoRecord
    /\ requests = <<>>
    /\ qa_result = NoRecord
    /\ stored = {}
    /\ trace = PendingTrace
    /\ http_response = NoResponse
    /\ host = EmptyHost
    /\ event_loop = <<>>
    /\ worker = <<>>
    /\ error = <<>>
    /\ log = <<"clone", "clone ok", "build", "docker build", "build ok">>
    /\ arg = <<>>
    /\ ret = <<>>

\* RunTestCandidate with ret keeping the candidates run so far and what the
\* process of each did.
RunRecordedCandidate ==
    /\ pc = "test"
    /\ c <= Len(test_commands)
    /\ \E out \in RunOutcomes :
         /\ TryCandidate(out)
         /\ ret' = Append(ret, [cmd |-> test_commands[c], r |-> out])
    /\ UNCHANGED arg

NextTests ==
    \/ RunRecordedCandidate
    \/ RemoveImage
    \/ FinallyClause
    \/ EvaluateReasoningWithLlm

SpecTests == InitTests /\ [][NextTests]_vars

\* ------------------------------- evaluate_reasoning_with_llm and what follows
\* run_qa_pipeline at its call of evaluate_reasoning_with_llm: the tests
\* of a trace of at most two events have passed or failed in the container
\* and the image and the sandbox have been removed.
JudgedTraces ==
    { evs \in EventLists :
        /\ Len(evs) <= 2
        /\ \A k \in DOMAIN evs : evs[k].event_type \in {"reasoning", "command"}
        /\ \A j, k \in DOMAIN evs : evs[j] = evs[k] => j = k }

InitJudge ==
    /\ events \in JudgedTraces
    /\ pc = "judge"
    /\ temp_dir = None
    /\ sandbox = "removed"
    /\ files = EmptyFs
    /\ i = 1
    /\ image = "removed"
    /\ c = 1
    /\ exit_code = Unset
    /\ test_output = <<>>
    /\ \E passed \in BOOLEAN :
         result = [tests_passed |-> passed,
                   test_output |-> <<"stdout", "stderr">>]
    /\ cleanup = [rmi |-> "ok", rmtree |-> "ok"]
    /\ evaluation_result = NoRecord
    /\ requests = <<>>
    /\ qa_result = NoRecord
    /\ stored = {}
    /\ trace = PendingTrace
    /\ http_response = NoResponse
    /\ host = EmptyHost
    /\ event_loop = <<>>
    /\ worker = <<>>
    /\ error = <<>>
    /\ log = IF events = <<>>
             THEN <<"clone", "clone ok", "build", "docker build", "build ok",
                    "test", "rmi", "rmtree", "outcome">>
             ELSE <<"clone", "clone ok", "edit", "build", "docker build",
                    "build ok", "test", "rmi", "rmtree", "outcome">>
    /\ arg = <<>>
    /\ ret = <<>>

\* EvaluateReasoningWithLlm with arg keeping what the client and the
\* requests did.
JudgeRecorded ==
    /\ pc = "judge"
    /\ \E client \in ClientOutcomes(events) :
       \E t1 \in Replies(client = "ok") :
       \E t2 \in Replies(client = "ok" /\ t1.kind = "attribute_error") :
         /\ Judge(client, t1, t2)
         /\ arg' = [client |-> client, t1 |-> t1, t2 |-> t2]
    /\ UNCHANGED ret

NextJudge ==
    \/ JudgeRecorded
    \/ AssembleResult
    \/ ExceptHandler

SpecJudge == InitJudge /\ [][NextJudge]_vars

\* --------------------------------------------------- build_reasoning_chains
\* Longest list of events of a trace handed to build_reasoning_chains, and
\* the number of distinct timestamps.  event_timestamp is a string and the
\* sort compares strings; the numbers 1..MaxTime stand for MaxTime strings
\* in their string order.
MaxChain == 3
MaxTime == 3

\* What add_event and create_trace can store as an event: its type, its
\* timestamp and whether its details text is a JSON object, a JSON array
\* or not JSON at all.
ShapesUpTo(last) ==
    [event_type : {"reasoning"}, event_timestamp : 1..last,
     json : {"object", "array", "raw"}]
    \cup [event_type : {"command", "edit"}, event_timestamp : 1..last,
          json : {"object", "raw"}]

Shapes == ShapesUpTo(MaxTime)

\* The details of the k-th event of the trace; the number of the event is
\* the text it carries.
DetailsOf(k, shape) ==
    CASE shape.json = "raw"   -> [raw |-> ToString(k)]
      [] shape.json = "array" -> [array |-> ToString(k)]
      [] OTHER ->
           IF shape.event_type = "reasoning" THEN [text |-> ToString(k)]
           ELSE IF shape.event_type = "command" THEN [command |-> ToString(k)]
           ELSE [file |-> ToString(k)]

TimedEvent(k, shape) ==
    [id |-> k, event_type |-> shape.event_type,
     event_timestamp |-> shape.event_timestamp,
     details |-> DetailsOf(k, shape)]

\* The events of a trace whose k-th event has the shape sh[k].
TimedEvents(sh) == [k \in DOMAIN sh |-> TimedEvent(k, sh[k])]

\* [e for e in trace.events if e.event_type == t]
OfType(evs, t) == SelectSeq(evs, LAMBDA e : e.event_type = t)

\* sorted(..., key=lambda e: e.event_timestamp): a stable sort, so events
\* with equal timestamps keep the order they have in the list sorted.
InsertSorted(s, e) ==
    LET p == Cardinality({ k \in DOMAIN s :
                             s[k].event_timestamp <= e.event_timestamp })
    IN SubSeq(s, 1, p) \o <<e>> \o SubSeq(s, p + 1, Len(s))

\* Variant: the events are scanned as they arrive, without sorting.
arrival_order(s) == s

RECURSIVE sorted(_)
sorted(s) ==
    IF s = <<>> THEN <<>>
    ELSE InsertSorted(sorted(SubSeq(s, 1, Len(s) - 1)), s[Len(s)])

\* current_reasoning = None
NoEvent == [id |-> 0, event_type |-> "none", event_timestamp |-> 0,
            details |-> [raw |-> "none"]]

\* reasoning_details.get(...) needs a JSON object.
HasGet(value) == "array" \notin DOMAIN value

\* Variant: the first Reasoning event stays the current one.
NextReasoningKeepsFirst(current, event) ==
    IF current = NoEvent THEN event ELSE current

\* Variant: a Reasoning event replaces the current one only when its
\* timestamp is later.
NextReasoningLaterOnly(current, event) ==
    IF event.event_timestamp > current.event_timestamp THEN event ELSE current

\* current_reasoning = event
NextReasoning(current, event) == event

\* Variant: a Reasoning event is used up by the first link it is put in.
AfterLinkConsumed(current) == NoEvent

\* current_reasoning after a link was appended: it stays.
AfterLink(current) == current

\* The try block of the loop: chains with the link of current and event
\* appended, or chains as it is when either details text does not decode.
WithLink(chains, current, event) ==
    LET reasoning_details == JsonLoads(current.details)
        action_details == JsonLoads(event.details)
    IN IF ~reasoning_details.ok \/ ~action_details.ok
          \/ ~HasGet(reasoning_details.value)
       THEN chains
       ELSE Append(chains,
              [reasoning |->
                 [text |-> Get(reasoning_details.value, "text", ""),
                  type |-> Get(reasoning_details.value, "reasoning_type",
                               "unknown"),
                  confidence |-> Get(reasoning_details.value, "confidence",
                                     "medium"),
                  timestamp |-> current.event_timestamp],
               action |->
                 [type |-> event.event_type,
                  timestamp |-> event.event_timestamp,
                  details |-> action_details.value]])

RECURSIVE ScanEvents(_, _, _, _)
ScanEvents(all_events, k, current_reasoning, chains) ==
    IF k > Len(all_events) THEN chains
    ELSE LET event == all_events[k] IN
         IF event.event_type = "reasoning"
         THEN ScanEvents(all_events, k + 1,
                         NextReasoning(current_reasoning, event), chains)
         ELSE IF current_reasoning # NoEvent
                 /\ event.event_type \in {"command", "edit"}
         THEN LET linked == WithLink(chains, current_reasoning, event) IN
              ScanEvents(all_events, k + 1,
                         IF linked = chains THEN current_reasoning
                         ELSE AfterLink(current_reasoning),
                         linked)
         ELSE ScanEvents(all_events, k + 1, current_reasoning, chains)

build_reasoning_chains(reasoning, command_events, edit_events) ==
    ScanEvents(sorted(reasoning \o command_events \o edit_events), 1,
               NoEvent, <<>>)

\* evaluate_reasoning_with_llm called for a trace of at most longest
\* events with shapes from shapes.
ChainsCall(longest, shapes) ==
    /\ \E n \in 0..longest : \E sh \in [1..n -> shapes] :
         arg = TimedEvents(sh)
    /\ ret = <<>>
    /\ events = <<>>
    /\ pc = "call"
    /\ temp_dir = None
    /\ sandbox = "none"
    /\ files = EmptyFs
    /\ i = 1
    /\ log = <<>>
    /\ Unused

InitChains == ChainsCall(MaxChain, Shapes)

\* evaluate_reasoning_with_llm, its steps 1 and 2, for the trace events arg.
BuildChains ==
    /\ pc = "call"
    /\ ret' = build_reasoning_chains(OfType(arg, "reasoning"),
                                     OfType(arg, "command"),
                                     OfType(arg, "edit"))
    /\ pc' = "done"
    /\ UNCHANGED <<arg, events, trace, http_response, host, event_loop,
                   worker, temp_dir, sandbox,
                   files, i, image, c,
                   exit_code, test_output, result, cleanup,
                   evaluation_result, requests, qa_result, stored, error,
                   log>>

NextChains == BuildChains

SpecChains == InitChains /\ [][NextChains]_vars

\* ------------------------------ build_reasoning_chains and arrival order
\* Longest trace whose arrival orders are compared, and the number of
\* distinct timestamps in it.
MaxArrivals == 3
MaxTies == 2

InitArrival == ChainsCall(MaxArrivals, ShapesUpTo(MaxTies))

SpecArrival == InitArrival /\ [][NextChains]_vars

\* ------------------------------------------------- the endpoints of traces
\* Most events stored for the trace.
MaxStored == 3
\* Most runs of run_qa_pipeline for the trace.
MaxRuns == 2

HTTP_200_OK == 200
HTTP_201_CREATED == 201
HTTP_400_BAD_REQUEST == 400
HTTP_404_NOT_FOUND == 404
\* The response to a request whose handler lets an exception out.
InternalServerError == 500

\* The trace_id create_trace generates, and an id that no trace has.
TraceIds == {"t", "u"}

\* The details a request can carry: an object, a string that is not JSON,
\* or none.  EventSchema admits objects only.
StringDetails == [string |-> "not json"]
NoDetails == [null |-> TRUE]

\* The events of the body of create_trace.
EventData ==
    { [type |-> "reasoning", timestamp |-> "ts", details |-> [text |-> "t"]],
      [type |-> "command", timestamp |-> "ts",
       details |-> [command |-> "c"]] }
TraceData == { <<>> } \cup { <<e>> : e \in EventData }

\* The bodies of add_event: a dict with or without type and timestamp.
EventPayloads ==
    EventData
    \cup { [type |-> "command", timestamp |-> "ts", details |-> d] :
             d \in {StringDetails, NoDetails} }
    \cup { [timestamp |-> "ts", details |-> [command |-> "c"]],
           [type |-> "command", details |-> [command |-> "c"]] }

\* The text stored in Event.details, as what json.loads makes of it:
\* json.dumps(details) of an object decodes to the object, a string that
\* is not JSON and the empty string do not decode.
serialized_details(details) ==
    IF "string" \in DOMAIN details THEN [raw |-> details.string]
    ELSE IF "null" \in DOMAIN details THEN [raw |-> ""]
    ELSE details

\* Event(trace_id=..., event_type=..., event_timestamp=..., details=...)
EventRow(data) ==
    [event_type |-> data.type,
     event_timestamp |-> data.timestamp,
     details |-> serialized_details(data.details)]

EventRows(trace_data) == [k \in DOMAIN trace_data |-> EventRow(trace_data[k])]

\* The errors run_qa_pipeline catches for a trace, and the Verdicts it
\* returns for them.
PipelineErrors(evs) ==
    { <<"invalid keyword argument for QAResult">> }
    \cup IF reasoning_events(evs) = {} THEN {}
         ELSE { <<"TypeError">>, <<"KeyError: reasoning_score">>,
                <<"KeyError: judge_comments">> }
Verdicts(evs) == { FailedResult(e) : e \in PipelineErrors(evs) }

\* run_qa_pipeline(trace, db) as one step: it returns a Verdict that it
\* has stored, or it raises out of its except clause.  qa_results has
\* trace_id as its primary key: storing a second row for a trace fails.
Raised == [returns |-> FALSE, record |-> NoRecord]
PipelineOutcomes(evs, rows) ==
    { Raised }
    \cup IF rows # {} THEN {}
         ELSE { [returns |-> TRUE, record |-> v] : v \in Verdicts(evs) }

\* The conversion of a QAResult to QAResultSchema: the handlers read
\* qa_result.detailed_scores, strengths, weaknesses and recommendations,
\* and QAResultSchema accepts a reasoning_score within [1.0, 5.0].
ToSchema(record) ==
    IF "detailed_scores" \notin DOMAIN record
    THEN [ok |-> FALSE, value |-> <<"AttributeError">>]
    ELSE IF \/ record.reasoning_score < MinScore
            \/ record.reasoning_score > MaxScore
    THEN [ok |-> FALSE, value |-> <<"ValidationError">>]
    ELSE [ok |-> TRUE,
          value |-> [tests_passed |-> record.tests_passed # 0,
                     reasoning_score |-> record.reasoning_score,
                     judge_comments |-> record.judge_comments,
                     detailed_scores |-> record.detailed_scores]]

HttpError(code, detail) == [code |-> code, detail |-> detail]
TraceResponse(code, status, evs, qa) ==
    [code |-> code, status |-> status, events |-> evs, qa_results |-> qa]

\* What the endpoints leave alone: the state of a pipeline run.
PipelineIdle ==
    UNCHANGED <<temp_dir, sandbox, files, i, image, c, exit_code, test_output,
                result, cleanup, evaluation_result, requests, error, host,
                event_loop, worker>>

Runs == Len(log)

InitApi ==
    /\ events = <<>>
    /\ pc = "start"
    /\ temp_dir = None
    /\ sandbox = "none"
    /\ files = EmptyFs
    /\ i = 1
    /\ log = <<>>
    /\ arg = <<>>
    /\ ret = <<>>
    /\ image = "none"
    /\ c = 1
    /\ exit_code = Unset
    /\ test_output = <<>>
    /\ result = NoResult
    /\ cleanup = NoCleanup
    /\ evaluation_result = NoRecord
    /\ requests = <<>>
    /\ qa_result = NoRecord
    /\ stored = {}
    /\ error = <<>>
    /\ trace = NoTrace
    /\ http_response = NoResponse
    /\ host = EmptyHost
    /\ event_loop = <<>>
    /\ worker = <<>>

\* Variant: the filter on trace_id is left out.
firstOfAll(trace_id) == trace

\* db.query(Trace).filter(Trace.trace_id == trace_id).first()
first(trace_id) == IF trace.trace_id = trace_id THEN trace ELSE NoTrace

\* Variant: a trace of any status is finalized.
IsStored(row) == row # NoTrace

\* trace.status != "pending" is refused by finalize_trace.
IsPending(row) == row.status = "pending"

\* The events of the requests that were accepted, as they were submitted,
\* are kept in ret.
\* POST /api/traces
create_trace ==
    /\ trace = NoTrace
    /\ \E trace_data \in TraceData : \E db1, db2 \in DbOutcomes :
       \E run \in PipelineOutcomes(EventRows(trace_data), stored) :
         /\ arg' = [op |-> "create_trace", trace_id |-> "t"]
         /\ IF db1 # "ok"
            THEN /\ http_response' =
                      HttpError(InternalServerError, <<"commit">>)
                 /\ UNCHANGED <<trace, events, qa_result, stored, pc, log,
                                ret>>
            ELSE /\ events' = EventRows(trace_data)
                 /\ ret' = trace_data
                 /\ log' = Append(log, "run_qa_pipeline")
                 /\ pc' = IF run.returns THEN "returned" ELSE "raised"
                 /\ IF ~run.returns
                    THEN /\ trace' = PendingTrace
                         /\ http_response' =
                              HttpError(InternalServerError, <<"pipeline">>)
                         /\ UNCHANGED <<qa_result, stored>>
                    ELSE /\ qa_result' = run.record
                         /\ stored' = stored \cup {run.record}
                         /\ trace' = IF db2 = "ok"
                                     THEN [PendingTrace EXCEPT
                                             !.status = "completed"]
                                     ELSE PendingTrace
                         /\ http_response' =
                              IF db2 # "ok"
                              THEN HttpError(InternalServerError, <<"commit">>)
                              ELSE IF ~ToSchema(run.record).ok
                              THEN HttpError(InternalServerError,
                                             ToSchema(run.record).value)
                              ELSE TraceResponse(HTTP_201_CREATED, "completed",
                                                 trace_data,
                                                 ToSchema(run.record).value)
    /\ PipelineIdle

\* The details get_trace returns for an event.
ReturnedDetails(details) ==
    IF JsonLoads(details).ok THEN details ELSE [raw |-> details.raw]

\* GET /api/traces/{trace_id}
get_trace ==
    /\ \E trace_id \in TraceIds :
         /\ arg' = [op |-> "get_trace", trace_id |-> trace_id]
         /\ http_response' =
              IF first(trace_id) = NoTrace
              THEN HttpError(HTTP_404_NOT_FOUND, <<"Trace not found">>)
              ELSE LET event_schemas ==
                         [k \in DOMAIN events |->
                            [type |-> events[k].event_type,
                             timestamp |-> events[k].event_timestamp,
                             details |-> ReturnedDetails(events[k].details)]]
                   IN
                   IF stored = {}
                   THEN TraceResponse(HTTP_200_OK, trace.status,
                                      event_schemas, NoRecord)
                   ELSE LET row == CHOOSE r \in stored : TRUE IN
                        IF ~ToSchema(row).ok
                        THEN HttpError(InternalServerError, ToSchema(row).value)
                        ELSE TraceResponse(HTTP_200_OK, trace.status,
                                           event_schemas, ToSchema(row).value)
    /\ UNCHANGED <<trace, events, qa_result, stored, pc, log, ret>>
    /\ PipelineIdle

\* POST /api/traces/{trace_id}/events
add_event ==
    /\ Len(events) < MaxStored
    /\ \E trace_id \in TraceIds : \E event_payload \in EventPayloads :
       \E db \in DbOutcomes :
         /\ arg' = [op |-> "add_event", trace_id |-> trace_id]
         /\ IF first(trace_id) = NoTrace
            THEN /\ http_response' =
                      HttpError(HTTP_404_NOT_FOUND, <<"Trace not found">>)
                 /\ UNCHANGED <<events, ret>>
            ELSE IF \/ "type" \notin DOMAIN event_payload
                    \/ "timestamp" \notin DOMAIN event_payload
            THEN /\ http_response' =
                      HttpError(HTTP_400_BAD_REQUEST,
                                <<"Event must include 'type' and 'timestamp'">>)
                 /\ UNCHANGED <<events, ret>>
            ELSE IF db # "ok"
            THEN /\ http_response' =
                      HttpError(InternalServerError, <<"commit">>)
                 /\ UNCHANGED <<events, ret>>
            ELSE /\ events' = Append(events, EventRow(event_payload))
                 /\ ret' = Append(ret, event_payload)
                 /\ http_response' =
                      [code |-> HTTP_201_CREATED,
                       message |-> <<"Event added successfully">>]
    /\ UNCHANGED <<trace, qa_result, stored, pc, log>>
    /\ PipelineIdle

\* POST /api/traces/{trace_id}/finalize
finalize_trace ==
    /\ Runs < MaxRuns
    /\ \E trace_id \in TraceIds : \E db2 \in DbOutcomes :
       \E run \in PipelineOutcomes(events, stored) :
         /\ arg' = [op |-> "finalize_trace", trace_id |-> trace_id]
         /\ IF first(trace_id) = NoTrace
            THEN /\ http_response' =
                      HttpError(HTTP_404_NOT_FOUND, <<"Trace not found">>)
                 /\ UNCHANGED <<trace, qa_result, stored, pc, log>>
            ELSE IF ~IsPending(first(trace_id))
            THEN /\ http_response' =
                      HttpError(HTTP_400_BAD_REQUEST,
                                <<"Trace is not in 'pending' status">>)
                 /\ UNCHANGED <<trace, qa_result, stored, pc, log>>
            ELSE /\ log' = Append(log, "run_qa_pipeline")
                 /\ pc' = IF run.returns THEN "returned" ELSE "raised"
                 /\ IF ~run.returns
                    THEN /\ http_response' =
                              HttpError(InternalServerError, <<"pipeline">>)
                         /\ UNCHANGED <<trace, qa_result, stored>>
                    ELSE /\ qa_result' = run.record
                         /\ stored' = stored \cup {run.record}
                         /\ trace' = IF db2 = "ok"
                                     THEN [trace EXCEPT !.status = "completed"]
                                     ELSE trace
                         /\ http_response' =
                              IF db2 # "ok"
                              THEN HttpError(InternalServerError, <<"commit">>)
                              ELSE IF \E k \in DOMAIN events :
                                        ~JsonLoads(events[k].details).ok
                              THEN HttpError(InternalServerError,
                                             <<"JSONDecodeError">>)
                              ELSE IF ~ToSchema(run.record).ok
                              THEN HttpError(InternalServerError,
                                             ToSchema(run.record).value)
                              ELSE TraceResponse(
                                     HTTP_200_OK, "completed",
                                     [k \in DOMAIN events |->
                                        [type |-> events[k].event_type,
                                         timestamp |->
                                           events[k].event_timestamp,
                                         details |-> events[k].details]],
                                     ToSchema(run.record).value)
    /\ UNCHANGED <<events, ret>>
    /\ PipelineIdle

NextApi ==
    \/ create_trace
    \/ get_trace
    \/ add_event
    \/ finalize_trace

SpecApi == InitApi /\ [][NextApi]_vars

\* ------------------------------------------- the paths apply_diffs writes to
\* Longest file path of an edit, in tokens.
MaxPath == 5

\* A path is a sequence of tokens: the separator "/", the parent
\* directory ".." and a name, with a separator between any two of the
\* latter.
PathTokens == {"/", "..", "a"}
FilePaths ==
    { path \in UNION { [1..n -> PathTokens] : n \in 0..MaxPath } :
        \A k \in 1..(Len(path) - 1) : path[k] = "/" \/ path[k + 1] = "/" }

\* tempfile.mkdtemp(): the sandbox directory.
SandboxDir == <<"/", "tmp", "/", "d">>

\* file_path.lstrip("/")
RECURSIVE lstrip(_)
lstrip(path) ==
    IF path # <<>> /\ Head(path) = "/" THEN lstrip(Tail(path)) ELSE path

\* os.path.join(a, b)
join(a, b) ==
    IF b # <<>> /\ Head(b) = "/" THEN b
    ELSE IF a # <<>> /\ a[Len(a)] = "/" THEN a \o b
    ELSE a \o <<"/">> \o b

\* os.path.dirname(path): what precedes the last separator.
RECURSIVE dirname(_)
dirname(path) ==
    IF path = <<>> THEN <<>>
    ELSE IF path[Len(path)] = "/"
    THEN IF Len(path) = 1 THEN path ELSE SubSeq(path, 1, Len(path) - 1)
    ELSE dirname(SubSeq(path, 1, Len(path) - 1))

InitPaths ==
    /\ arg \in FilePaths
    /\ ret = <<>>
    /\ events = <<>>
    /\ pc = "call"
    /\ temp_dir = "d"
    /\ sandbox = "exists"
    /\ files = Checkout({})
    /\ i = 1
    /\ log = <<"clone", "clone ok">>
    /\ Unused

\* apply_diffs for an edit of the file arg whose diff is not a patch: the
\* directory it makes and the file it opens for writing; nothing when the
\* path is empty.
WritePath ==
    /\ pc = "call"
    /\ LET file_path == arg
           full_path == join(SandboxDir, lstrip(file_path))
       IN
       ret' = IF file_path = <<>>
              THEN [skipped |-> TRUE]
              ELSE [skipped |-> FALSE,
                    makedirs |-> dirname(full_path),
                    open |-> full_path]
    /\ pc' = "done"
    /\ UNCHANGED <<arg, events, trace, http_response, host, event_loop,
                   worker, temp_dir, sandbox, files,
                   i, image, c, exit_code, test_output, result, cleanup,
                   evaluation_result, requests, qa_result, stored, error,
                   log>>

NextPaths == WritePath

SpecPaths == InitPaths /\ [][NextPaths]_vars

\* ------------------------------------------ evaluations sharing one host
\* Most evaluations submitted to the host.
MaxEvaluations == 2
\* Most worker processes of the service.
MaxWorkers == 2

Evaluations == 1..MaxEvaluations
Workers == 1..MaxWorkers

\* tempfile.mkdtemp(prefix="trace_repo_"): a directory that does not exist
\* yet, named by the prefix and eight random characters.
SandboxPaths == {"trace_repo_a", "trace_repo_b", "trace_repo_c"}

\* repo_hash = hashlib.md5(repo_path.encode()).hexdigest()[:8] and
\* image_name = f"trace-test-{repo_hash}": eight hexadecimal digits, which
\* are fewer values than there are sandbox paths.
image_name(repo_path) ==
    IF repo_path = "trace_repo_b" THEN "1b" ELSE "0a"

\* The stages of create_trace that block: each is a call of
\* subprocess.run or of the synchronous client of the model.
BlockingStages == {"clone", "build", "test", "llm"}

\* Whether the coroutine gives the event loop back while it is in a stage:
\* no await of run_qa_pipeline reaches an awaitable that suspends.
Suspends(stage) == FALSE

InitHost ==
    /\ pc = [e \in Evaluations |-> "none"]
    /\ temp_dir = [e \in Evaluations |-> None]
    /\ image = [e \in Evaluations |-> None]
    /\ host = [dirs |-> {},
               tags |-> [h \in { image_name(path) : path \in SandboxPaths }
                             |-> 0]]
    /\ event_loop = [w \in Workers |-> 0]
    /\ worker = [e \in Evaluations |-> 0]
    /\ events = <<>>
    /\ sandbox = "none"
    /\ files = EmptyFs
    /\ i = 1
    /\ c = 1
    /\ exit_code = Unset
    /\ test_output = <<>>
    /\ result = NoResult
    /\ cleanup = NoCleanup
    /\ evaluation_result = NoRecord
    /\ requests = <<>>
    /\ qa_result = NoRecord
    /\ stored = {}
    /\ error = <<>>
    /\ log = <<>>
    /\ arg = <<>>
    /\ ret = <<>>
    /\ trace = NoTrace
    /\ http_response = NoResponse

\* What the stages of an evaluation leave alone.
HostOnly ==
    UNCHANGED <<events, sandbox, files, i, c, exit_code, test_output, result,
                cleanup, evaluation_result, requests, qa_result, stored,
                error, log, arg, ret, trace, http_response>>

\* Evaluation e goes from one stage to the next on the event loop of its
\* worker process, which it keeps unless the stage suspends.
Advance(e, from, to) ==
    /\ pc[e] = from
    /\ event_loop[worker[e]] \in {0, e}
    /\ pc' = [pc EXCEPT ![e] = to]
    /\ event_loop' = [event_loop EXCEPT ![worker[e]] =
                        IF Suspends(from) \/ to = "done" THEN 0 ELSE e]

\* POST /api/traces arrives at a worker process.
Submit ==
    \E e \in Evaluations : \E w \in Workers :
      /\ pc[e] = "none"
      /\ pc' = [pc EXCEPT ![e] = "submitted"]
      /\ worker' = [worker EXCEPT ![e] = w]
      /\ UNCHANGED <<temp_dir, image, host, event_loop>>
      /\ HostOnly

\* The event loop starts the coroutine of create_trace.
Start ==
    \E e \in Evaluations :
      /\ Advance(e, "submitted", "clone")
      /\ event_loop[worker[e]] = 0
      /\ UNCHANGED <<temp_dir, image, host, worker>>
      /\ HostOnly

\* clone_repository: mkdtemp and git clone.
Clone ==
    \E e \in Evaluations : \E path \in SandboxPaths \ host.dirs :
    \E cloned \in BOOLEAN :
      /\ Advance(e, "clone", IF cloned THEN "build" ELSE "rmtree")
      /\ temp_dir' = [temp_dir EXCEPT ![e] = path]
      /\ host' = [host EXCEPT !.dirs = @ \cup {path}]
      /\ UNCHANGED <<image, worker>>
      /\ HostOnly

\* build_docker_container: docker build -t image_name repo_path.
Build ==
    \E e \in Evaluations : \E built \in BOOLEAN :
      /\ Advance(e, "build", IF built THEN "test" ELSE "rmtree")
      /\ IF built
         THEN /\ image' = [image EXCEPT ![e] = image_name(temp_dir[e])]
              /\ host' = [host EXCEPT
                            !.tags[image_name(temp_dir[e])] = e]
         ELSE UNCHANGED <<image, host>>
      /\ UNCHANGED <<temp_dir, worker>>
      /\ HostOnly

\* run_tests_in_container: docker run --rm image_name.
Test ==
    \E e \in Evaluations :
      /\ Advance(e, "test", "rmi")
      /\ UNCHANGED <<temp_dir, image, host, worker>>
      /\ HostOnly

\* docker rmi -f image_name
Rmi ==
    \E e \in Evaluations :
      /\ Advance(e, "rmi", "rmtree")
      /\ host' = [host EXCEPT !.tags[image[e]] = 0]
      /\ UNCHANGED <<temp_dir, image, worker>>
      /\ HostOnly

\* shutil.rmtree(temp_dir)
Rmtree ==
    \E e \in Evaluations :
      /\ Advance(e, "rmtree", "llm")
      /\ host' = [host EXCEPT !.dirs = @ \ {temp_dir[e]}]
      /\ UNCHANGED <<temp_dir, image, worker>>
      /\ HostOnly

\* evaluate_reasoning_with_llm and the rest of create_trace.
Llm ==
    \E e \in Evaluations :
      /\ Advance(e, "llm", "done")
      /\ UNCHANGED <<temp_dir, image, host, worker>>
      /\ HostOnly

NextHost ==
    \/ Submit
    \/ Start
    \/ Clone
    \/ Build
    \/ Test
    \/ Rmi
    \/ Rmtree
    \/ Llm

SpecHost == InitHost /\ [][NextHost]_vars

\* ------------------------------------------------------------- properties
Contains(text, part) == \A k \in DOMAIN part : part[k] \in Range(text)

\* C1: run_qa_pipeline never lets an exception reach its caller, whichever
\* step fails, the storage of the result record included.
C1_NeverRaises == pc # "raised"

C3_FailureYieldsDegradedVerdict ==
    [][pc = "handler" =>
          /\ pc' = "returned"
          /\ qa_result'.tests_passed = 0
          /\ qa_result'.reasoning_score = FailedScore
          /\ Contains(qa_result'.judge_comments, error)]_vars

\* C4: every blocking external operation is bounded by a timeout, so the
\* evaluation never waits forever for a process that does not exit.
C4_EveryWaitIsBounded == pc # "blocked"

\* C5: the stages start strictly in the order clone, apply edits, build,
\* test, each only after the previous one completed successfully; chain
\* construction and the model call start only after the test outcome is
\* known.
StageOrder ==
    <<"clone", "clone ok", "edit", "build", "docker build", "build ok",
      "test", "rmi",
      "rmtree", "outcome", "chains", "llm", "store", "handler">>
Rank(name) == CHOOSE k \in DOMAIN StageOrder : StageOrder[k] = name

C5_StagesInOrder ==
    /\ \A a, b \in DOMAIN log : a < b => Rank(log[a]) < Rank(log[b])
    /\ Started("edit") => Started("clone ok")
    /\ Started("build") =>
         /\ Started("clone ok")
         /\ ~Started("outcome") => i > Len(events)
    /\ Started("test") => Started("build ok")
    /\ (Started("chains") \/ Started("llm")) => Started("outcome")

C5_Witness ==
    /\ Started("edit")
    /\ Started("test")
    /\ Started("llm")
    /\ pc = "judged"

\* C6: when the clone or the image build fails the judgment still runs and
\* the Verdict carries the judgment's score, not the degraded 0.0.
C6_StageFailureKeepsJudgmentScore ==
    (pc = "returned" /\ ~Started("build ok")) =>
        /\ Started("outcome")
        /\ qa_result.reasoning_score # FailedScore
        /\ qa_result.reasoning_score = evaluation_result.reasoning_score

\* C7: no test candidate is run in an evaluation whose image build did not
\* succeed.
C7_NoTestWithoutBuild == Started("test") => Started("build ok")

C7_Witness ==
    /\ Started("build")
    /\ ~Started("build ok")
    /\ pc = "judged"

\* C8: on every exit path of run_tests_in_docker the removal of the sandbox
\* directory created for the evaluation is attempted before it returns.
C8_SandboxRemovalAttempted ==
    (Started("outcome") /\ sandbox # "none") => cleanup.rmtree # "none"

\* C9: whenever an image was built, its removal is attempted before the
\* test outcome is returned, whatever the result of the test run.
C9_ImageRemovalBeforeOutcome ==
    (Started("outcome") /\ Started("build ok")) =>
        /\ cleanup.rmi # "none"
        /\ Index("rmi") < Index("outcome")

C9_Witness ==
    /\ Started("outcome")
    /\ Started("build ok")
    /\ result.test_output = <<"Test execution timed out">>

\* C10: a failure of the image removal or of the directory removal never
\* changes the pair returned by run_tests_in_docker: it is the exit status
\* and output of the test run, as when the cleanup succeeds.
C10_CleanupKeepsOutcome ==
    [][/\ pc = "rmi" =>
            /\ pc' = "finally"
            /\ result' = [tests_passed |-> exit_code = 0,
                          test_output |-> test_output]
       /\ pc = "finally" =>
            /\ pc' = "judge"
            /\ result' = result]_vars

C10_Witness ==
    /\ Started("outcome")
    /\ cleanup.rmi = "oserror"
    /\ cleanup.rmtree = "oserror"
    /\ result.tests_passed

\* An edit event that apply_diffs cannot use: its details are not JSON, or
\* name no file, or carry no diff.
Malformed(e) ==
    /\ e.event_type = "edit"
    /\ \/ "raw" \in DOMAIN e.details
       \/ Get(e.details, "file", "") = ""
       \/ Get(e.details, "diff", <<>>) = <<>>

\* C11: apply_diffs never raises.  Whatever an event is and whatever
\* makedirs, the patch file, git apply and the target file do, one
\* iteration ends inside apply_diffs: the loop goes on to the next event
\* (or is still waiting for git apply, which only an "@@" diff starts), and
\* a malformed edit event is skipped with the sandbox unchanged.
C11_ApplyDiffsNeverRaises ==
    [][ (pc = "apply" /\ i <= Len(events)) =>
          /\ pc' \in {"apply", "blocked"}
          /\ error' = error
          /\ (pc' = "apply" => i' = i + 1)
          /\ (pc' = "blocked" =>
                /\ events[i].event_type = "edit"
                /\ StartsWithHunk(Get(events[i].details, "diff", <<>>)))
          /\ (Malformed(events[i]) => (files' = files /\ pc' = "apply")) ]_vars

\* A malformed edit was skipped and the edit after it was applied.
C11_Witness ==
    /\ pc = "apply"
    /\ i = 3
    /\ Malformed(events[1])
    /\ events[2].details = [file |-> "a.py", diff |-> PlainDiff, change |-> "body"]
    /\ files["a.py"] = "body"

\* The edit event of the call names a file and carries a replacement body.
HasFileAndChange ==
    /\ Get(arg.event.details, "file", "") # ""
    /\ "change" \in DOMAIN arg.event.details

\* The part of the sandbox the call may write can be written.
Writable == arg.mk = "ok" /\ arg.fw = "ok"

\* git apply was run for the patch and did not apply it, or could not be
\* run at all.
PatchFails ==
    /\ StartsWithHunk(Get(arg.event.details, "diff", <<>>))
    /\ arg.mk = "ok"
    /\ \/ arg.pw = "oserror"
       \/ arg.git \in {"nonzero", "oserror"}

\* C12: for an edit whose diff begins with "@@" and whose patch application
\* fails, if a replacement body is present the target file holds exactly
\* that body afterwards.
C12_FailedPatchWritesBody ==
    (pc = "done" /\ HasFileAndChange /\ PatchFails /\ Writable) =>
        ret.files[arg.event.details.file] = arg.event.details.change

\* C13: for an edit for which no patch application is attempted (diff
\* absent, empty or not beginning with "@@"), if a file and a replacement
\* body are present the target file holds exactly that body afterwards.
C13_NoPatchWritesBody ==
    (/\ pc = "done"
     /\ HasFileAndChange
     /\ Writable
     /\ ~StartsWithHunk(Get(arg.event.details, "diff", <<>>))) =>
        ret.files[arg.event.details.file] = arg.event.details.change

\* C13, amended: for an edit whose diff is not empty and does not begin
\* with "@@", if a file and a replacement body are present and the target
\* can be written, the target file holds exactly that body afterwards; an
\* edit whose diff is absent or empty leaves the sandbox as it was.
C13_PlainDiffWritesBody ==
    (pc = "done" /\ ~StartsWithHunk(Get(arg.event.details, "diff", <<>>))) =>
        /\ (/\ HasFileAndChange
            /\ Writable
            /\ Get(arg.event.details, "diff", <<>>) # <<>>) =>
               ret.files[arg.event.details.file] = arg.event.details.change
        /\ Get(arg.event.details, "diff", <<>>) = <<>> => ret.files = files

\* A replacement body was written for a diff that is not a patch.
C13_Witness ==
    /\ pc = "done"
    /\ arg.event.details = [file |-> "a.py", diff |-> PlainDiff, change |-> "body"]
    /\ Writable
    /\ files["a.py"] = "repo"
    /\ ret.files["a.py"] = "body"

\* build_docker_container is called in this step.
BuilderCalled == pc = "apply" /\ i > Len(events)

\* C14: when a Dockerfile exists at the sandbox root at the call of
\* build_docker_container, the call leaves it, and every other file, as it
\* was, whichever markers are present.
C14_ExistingDockerfileKept ==
    [][ (BuilderCalled /\ files["Dockerfile"] # Absent) => files' = files ]_vars

\* An image was built from the cloned Dockerfile with all markers present.
C14_Witness ==
    /\ pc = "test"
    /\ files["Dockerfile"] = "repo"
    /\ \A m \in Markers : files[m] # Absent

\* C15: with no Dockerfile, the one written is for Node.js when
\* package.json is present, else for Python when requirements.txt is
\* present, else for Maven when pom.xml is present, and an image build is
\* started only with that Dockerfile in place; with no marker the builder
\* fails, writes nothing and starts no image build.
C15_MarkerPriority ==
    [][ (BuilderCalled /\ files["Dockerfile"] = Absent) =>
          LET expected ==
                IF files["package.json"] # Absent THEN "node"
                ELSE IF files["requirements.txt"] # Absent THEN "python"
                ELSE "maven"
              unsupported == \A m \in Markers : files[m] = Absent
          IN /\ unsupported =>
                  /\ files' = files
                  /\ pc' = "except"
                  /\ "docker build" \notin Range(log')
             /\ ~unsupported =>
                  /\ files'["Dockerfile"] \in {Absent, expected}
                  /\ "docker build" \in Range(log') =>
                        files'["Dockerfile"] = expected
                  /\ \A p \in Paths \ {"Dockerfile"} : files'[p] = files[p] ]_vars

\* The Python Dockerfile was written although pom.xml is present too.
C15_Witness ==
    /\ pc = "test"
    /\ files["Dockerfile"] = "python"
    /\ files["package.json"] = Absent
    /\ files["requirements.txt"] # Absent
    /\ files["pom.xml"] # Absent

\* The candidate's process gave no result to use: the shell did not find
\* the command (exit code 127) or the process could not be started.
Unresolvable(r) == r \in {"notfound", "oserror"}
Last(s) == s[Len(s)]

\* C16: the candidates are run in the order npm test, python -m pytest,
\* pytest, python -m unittest discover, mvn test, make test, ./test.sh;
\* every candidate run before the last one was unresolvable, so the run
\* stops at the first candidate that is not, and when that candidate
\* exited, the outcome is its exit code (not 127) and its stdout+stderr.
\* The candidate selected depends on the per-candidate results only.
C16_FirstResolvableCandidate ==
    /\ \A k \in DOMAIN ret :
         ret[k].cmd = << "npm test", "python -m pytest", "pytest",
                         "python -m unittest discover", "mvn test",
                         "make test", "./test.sh" >>[k]
    /\ \A k \in 1..(Len(ret) - 1) : Unresolvable(ret[k].r)
    /\ pc = "test" =>
         /\ Len(ret) = c - 1
         /\ \A k \in DOMAIN ret : Unresolvable(ret[k].r)
    /\ pc = "rmi" =>
         /\ exit_code # CommandNotFound
         /\ Unresolvable(Last(ret).r) => Len(ret) = Len(test_commands)
         /\ Last(ret).r \in {"ok", "nonzero"} =>
              /\ exit_code = (IF Last(ret).r = "ok" THEN 0 ELSE FailingExitCode)
              /\ test_output = <<"stdout", "stderr">>

\* The third candidate was the first to be found and its exit code is the
\* outcome.
C16_Witness ==
    /\ pc = "rmi"
    /\ Len(ret) = 3
    /\ ret[1].r = "notfound"
    /\ ret[2].r = "oserror"
    /\ ret[3].r = "nonzero"
    /\ exit_code = FailingExitCode

\* C17: when a candidate times out, the test outcome is failed with a
\* non-zero exit code and the output "Test execution timed out", no later
\* candidate is run, and the evaluation goes on to the judgment stage
\* without an exception.
C17_TimeoutIsFailedOutcome ==
    \A k \in DOMAIN ret :
      ret[k].r = "never" =>
        /\ k = Len(ret)
        /\ pc \in {"rmi", "finally", "judge", "judged"}
        /\ error = <<>>
        /\ pc = "rmi" =>
             /\ exit_code # 0
             /\ test_output = <<"Test execution timed out">>
        /\ pc \in {"judge", "judged"} =>
             /\ ~result.tests_passed
             /\ result.test_output = <<"Test execution timed out">>

\* The second candidate timed out and the reasoning was judged.
C17_Witness ==
    /\ pc = "judged"
    /\ Len(ret) = 2
    /\ ret[2].r = "never"
    /\ evaluation_result # NoRecord

\* C18: when every candidate is unresolvable, all seven candidates have
\* been run, each once, and the outcome is failed with a non-zero exit code
\* and the diagnostic that no test command was found; the run gives up
\* only after the seventh candidate.
C18_NoCandidateResolvable ==
    (pc # "test" /\ \A k \in DOMAIN ret : Unresolvable(ret[k].r)) =>
        /\ Len(ret) = 7
        /\ \A j, k \in DOMAIN ret : ret[j].cmd = ret[k].cmd => j = k
        /\ {ret[k].cmd : k \in DOMAIN ret} = Range(test_commands)
        /\ pc = "rmi" =>
             /\ exit_code # 0
             /\ test_output =
                  <<"No test command found or all test commands failed">>
        /\ pc \in {"judge", "judged"} =>
             /\ ~result.tests_passed
             /\ result.test_output =
                  <<"No test command found or all test commands failed">>

\* Seven unresolvable candidates were run and the outcome is failed.
C18_Witness ==
    /\ pc = "judge"
    /\ Len(ret) = 7
    /\ \A k \in DOMAIN ret : Unresolvable(ret[k].r)
    /\ ret[1].r = "notfound"
    /\ ret[2].r = "oserror"
    /\ ~result.tests_passed

\* The Reasoning events and the Command and Edit events of the trace, by
\* their numbers.
Reasonings == { k \in DOMAIN arg : arg[k].event_type = "reasoning" }
Actions == { k \in DOMAIN arg : arg[k].event_type \in {"command", "edit"} }

\* Reasoning r comes before action a in timestamp order; at equal
\* timestamps the Reasoning event comes first.
Before(r, a) == arg[r].event_timestamp <= arg[a].event_timestamp

\* Reasoning q comes before Reasoning r: by timestamp, then as recorded.
Earlier(q, r) ==
    \/ arg[q].event_timestamp < arg[r].event_timestamp
    \/ arg[q].event_timestamp = arg[r].event_timestamp /\ q < r

\* The latest Reasoning event before action a; 0 when there is none.
LatestBefore(a) ==
    IF \E r \in Reasonings : Before(r, a)
    THEN CHOOSE r \in Reasonings :
           /\ Before(r, a)
           /\ \A q \in Reasonings : (Before(q, a) /\ q # r) => Earlier(q, r)
    ELSE 0

\* Link number k pairs Reasoning r with action a.
Pairs(k, r, a) ==
    /\ ret[k].reasoning.text = ToString(r)
    /\ ret[k].reasoning.timestamp = arg[r].event_timestamp
    /\ ret[k].action.type = arg[a].event_type
    /\ ret[k].action.timestamp = arg[a].event_timestamp
    /\ ret[k].action.details = arg[a].details

\* The links are in ascending timestamp order of their actions.
Ascending ==
    \A j, k \in DOMAIN ret :
       j < k => ret[j].action.timestamp <= ret[k].action.timestamp

\* The details text of the event decodes (for a Reasoning event: to a JSON
\* object).
Decodes(k) ==
    /\ JsonLoads(arg[k].details).ok
    /\ arg[k].event_type = "reasoning" => HasGet(arg[k].details)

\* C19: build_reasoning_chains returns, in ascending timestamp order of the
\* actions, exactly one link for each Command or Edit event that has a
\* Reasoning event before it, pairing it with the latest such Reasoning
\* event, and no other link.
C19_OneLinkPerAction ==
    pc = "done" =>
      LET linked == { a \in Actions : LatestBefore(a) # 0 } IN
      /\ Len(ret) = Cardinality(linked)
      /\ \A a \in linked : \E k \in DOMAIN ret : Pairs(k, LatestBefore(a), a)
      /\ Ascending

\* C19, amended: exactly one link for each Command or Edit event whose
\* details decode and whose latest Reasoning event before it exists and
\* has details that decode to a JSON object, pairing it with that
\* Reasoning event; the links are in ascending timestamp order of their
\* actions, and no other link is returned.
C19_OneLinkPerDecodableAction ==
    pc = "done" =>
      LET linked == { a \in Actions :
                        /\ Decodes(a)
                        /\ LatestBefore(a) # 0
                        /\ Decodes(LatestBefore(a)) }
      IN
      /\ Len(ret) = Cardinality(linked)
      /\ \A a \in linked : \E k \in DOMAIN ret : Pairs(k, LatestBefore(a), a)
      /\ Ascending

\* Of two Reasoning events before an Edit, the later one is in its link;
\* the Command before both has none.
C19_Witness ==
    /\ pc = "done"
    /\ Len(arg) = 3
    /\ arg[1].event_type = "edit" /\ arg[1].event_timestamp = 3
    /\ arg[2].event_type = "reasoning" /\ arg[2].event_timestamp = 2
    /\ arg[3].event_type = "reasoning" /\ arg[3].event_timestamp = 1
    /\ Len(ret) = 1
    /\ Pairs(1, 2, 1)

\* The links that carry Reasoning event r.
LinksOf(r) ==
    { k \in DOMAIN ret :
        /\ ret[k].reasoning.text = ToString(r)
        /\ ret[k].reasoning.timestamp = arg[r].event_timestamp }

\* The actions that follow Reasoning r with no other Reasoning between.
Following(r) == { a \in Actions : LatestBefore(a) = r }

\* C20: when k Command or Edit events follow one Reasoning event with no
\* other Reasoning event between them, k links carry that Reasoning event.
C20_OneReasoningManyLinks ==
    pc = "done" =>
      \A r \in Reasonings : Cardinality(LinksOf(r)) = Cardinality(Following(r))

\* C20, amended: when k Command or Edit events whose details decode follow
\* one Reasoning event whose details decode to a JSON object, with no
\* other Reasoning event between them, k links carry that Reasoning event,
\* one for each of the k events.
C20_OneReasoningManyDecodableLinks ==
    pc = "done" =>
      \A r \in Reasonings :
        Decodes(r) =>
          LET following == { a \in Following(r) : Decodes(a) } IN
          /\ Cardinality(LinksOf(r)) = Cardinality(following)
          /\ \A a \in following : \E k \in LinksOf(r) : Pairs(k, r, a)

\* Reasoning at the first timestamp, Command at the second, Edit at the
\* third: exactly the links (Reasoning, Command) and (Reasoning, Edit).
C20_Witness ==
    /\ pc = "done"
    /\ Len(arg) = 3
    /\ arg[1].event_type = "reasoning" /\ arg[1].event_timestamp = 1
    /\ arg[2].event_type = "command" /\ arg[2].event_timestamp = 2
    /\ arg[3].event_type = "edit" /\ arg[3].event_timestamp = 3
    /\ Len(ret) = 2
    /\ Pairs(1, 1, 2)
    /\ Pairs(2, 1, 3)

\* C21: in every link, the action is the nearest Command or Edit event
\* that follows the link's Reasoning event in timestamp order (stated for
\* traces whose details all decode).
C21_ActionIsNearestFollowing ==
    (pc = "done" /\ \A e \in DOMAIN arg : Decodes(e)) =>
      \A k \in DOMAIN ret :
        \E r \in Reasonings, a \in Actions :
          /\ Pairs(k, r, a)
          /\ \A b \in Actions :
               Before(r, b) => arg[a].event_timestamp <= arg[b].event_timestamp

\* C21, amended: in every link, the Reasoning event is the latest
\* Reasoning event at or before the link's action in timestamp order, so
\* the action follows it with no other Reasoning event between them; the
\* action need not be the nearest one that follows.
C21_ReasoningIsNearestPreceding ==
    pc = "done" =>
      \A k \in DOMAIN ret :
        \E r \in Reasonings, a \in Actions :
          /\ Pairs(k, r, a)
          /\ Before(r, a)
          /\ LatestBefore(a) = r

\* Two Reasoning events with the same timestamp come before a Command:
\* the one recorded later is in the link.
C21_Witness ==
    /\ pc = "done"
    /\ Len(arg) = 3
    /\ arg[1].event_type = "reasoning" /\ arg[1].event_timestamp = 1
    /\ arg[2].event_type = "reasoning" /\ arg[2].event_timestamp = 1
    /\ arg[3].event_type = "command" /\ arg[3].event_timestamp = 2
    /\ Len(ret) = 1
    /\ Pairs(1, 2, 3)

\* The events of the trace in the arrival order p.
Arrived(p) == [k \in DOMAIN arg |-> arg[p[k]]]

\* The chains built when the events of the trace arrive in the order p.
ChainsOf(p) ==
    build_reasoning_chains(OfType(Arrived(p), "reasoning"),
                           OfType(Arrived(p), "command"),
                           OfType(Arrived(p), "edit"))

\* C22: for every permutation of the events of a trace, events that share
\* a timestamp included, build_reasoning_chains returns the same links.
C22_ArrivalOrderIrrelevant ==
    pc = "done" => \A p \in Permutations(DOMAIN arg) : ChainsOf(p) = ret

\* The arrival order p keeps the relative order of the events that have
\* the same type and the same timestamp.
KeepsTies(p) ==
    \A j, k \in DOMAIN arg :
       (/\ j < k
        /\ arg[p[j]].event_type = arg[p[k]].event_type
        /\ arg[p[j]].event_timestamp = arg[p[k]].event_timestamp) =>
          p[j] < p[k]

\* C22, amended: build_reasoning_chains returns the same links for every
\* permutation of the events of a trace that keeps the relative order of
\* the events sharing both type and timestamp; events of different types
\* that share a timestamp may arrive in any order.
C22_ArrivalOrderIrrelevantButTies ==
    pc = "done" =>
      \A p \in Permutations(DOMAIN arg) : KeepsTies(p) => ChainsOf(p) = ret

\* A Command that arrived before the Reasoning event of the same timestamp
\* and before an earlier Edit is linked, after that Edit.
C22_Witness ==
    /\ pc = "done"
    /\ Len(arg) = 3
    /\ arg[1].event_type = "command" /\ arg[1].event_timestamp = 2
    /\ arg[2].event_type = "reasoning" /\ arg[2].event_timestamp = 1
    /\ arg[3].event_type = "edit" /\ arg[3].event_timestamp = 1
    /\ Len(ret) = 2
    /\ Pairs(1, 2, 3)
    /\ Pairs(2, 2, 1)

\* C23: for a trace with no Reasoning event, evaluate_reasoning_with_llm
\* returns the neutral default (score 2.5, no detailed scores, commentary
\* that no reasoning events were found) and no request is sent to the
\* model in that evaluation.
C23_NoReasoningNeutralDefault ==
    (/\ evaluation_result # NoRecord
     /\ \A k \in DOMAIN events : events[k].event_type # "reasoning") =>
        /\ evaluation_result.reasoning_score = 25
        /\ DOMAIN evaluation_result.detailed_scores = {}
        /\ evaluation_result.judge_comments =
             <<"No reasoning events found in trace">>
        /\ requests = <<>>
        /\ ~Started("llm")

\* A trace of a Command and an Edit event was judged.
C23_Witness ==
    /\ pc = "judged"
    /\ Len(events) = 2
    /\ events[1].event_type = "command"
    /\ events[2].event_type = "edit"
    /\ evaluation_result.reasoning_score = NeutralScore
    /\ requests = <<>>

\* The evaluation of a trace with a Reasoning event has returned; arg
\* holds what the client and the two requests did.
Judged == pc # "judge" /\ reasoning_events(events) # {}

\* The call of the model raised: no client, a failed request, or the
\* JSON-object request failing after the parse API was found missing.
ModelCallRaised ==
    \/ arg.client = "error"
    \/ arg.t1.kind = "error"
    \/ arg.t1.kind = "attribute_error" /\ arg.t2.kind # "content"

\* The content of the request that was answered, and its mode.
Answered ==
    /\ arg.client = "ok"
    /\ \/ arg.t1.kind = "content"
       \/ arg.t1.kind = "attribute_error" /\ arg.t2.kind = "content"
Answer == IF arg.t1.kind = "content" THEN arg.t1.content ELSE arg.t2.content
Mode == IF arg.t1.kind = "content" THEN "json_schema" ELSE "json_object"

\* C24: when the call of the model raises, the judgment result has score
\* 2.5, a commentary of "LLM evaluation failed" with the error text, no
\* detailed scores, no strengths, no recommendations and one weakness that
\* notes the error; the Verdict built from it keeps the outcome of the
\* tests and is not the degraded one of score 0.0.
C24_ModelErrorKeepsTestOutcome ==
    (Judged /\ ModelCallRaised) =>
        /\ evaluation_result.reasoning_score = 25
        /\ Contains(evaluation_result.judge_comments,
                    <<"LLM evaluation failed: ", "OpenAI API call failed: ">>)
        /\ DOMAIN evaluation_result.detailed_scores = {}
        /\ evaluation_result.strengths = <<>>
        /\ evaluation_result.recommendations = <<>>
        /\ evaluation_result.weaknesses[1] = "Evaluation error: "
        /\ pc = "returned" =>
             /\ qa_result.tests_passed = (IF result.tests_passed THEN 1 ELSE 0)
             /\ qa_result.reasoning_score = 25

\* C25: every sub-score of the detailed scores that the Verdict is built
\* from lies in [1.0, 5.0], whatever the raw sub-score of the model was,
\* in the schema-constrained mode and in the JSON-object mode.
C25_SubScoresClamped ==
    (/\ Judged
     /\ IsDict(evaluation_result)
     /\ "detailed_scores" \in DOMAIN evaluation_result) =>
        \A k \in DOMAIN evaluation_result.detailed_scores :
            /\ evaluation_result.detailed_scores[k] >= 10
            /\ evaluation_result.detailed_scores[k] <= 50

\* C26: when the JSON-object response is not JSON but its text spells an
\* overall score and a commentary, the result carries that score and that
\* commentary and not the neutral default.
C26_ScoreExtractedFromRawText ==
    (/\ Judged
     /\ Answered
     /\ Mode = "json_object"
     /\ Answer.json = "invalid"
     /\ Answer.value = Spelled) =>
        /\ evaluation_result.reasoning_score = Spelled.reasoning_score
        /\ evaluation_result.judge_comments = Spelled.judge_comments

\* The answer fails at a parsing tier: it is no JSON, it is not an object,
\* or its score is missing or not a number.
TierFailed ==
    /\ Answered
    /\ \/ Answer.fence
       \/ Answer.json # "object"
       \/ "reasoning_score" \notin DOMAIN Answer.value
       \/ Answer.value.reasoning_score = NonNumeric

\* C27: evaluate_reasoning_with_llm does not raise, and a failure of the
\* call of the model or of any parsing tier ends in a result of score 2.5
\* that has reasoning_score and judge_comments, so that the Verdict is not
\* the degraded one (score 0.0, tests not passed).
C27_JudgmentFailureNeverDegrades ==
    (Judged /\ (ModelCallRaised \/ TierFailed)) =>
        /\ IsDict(evaluation_result)
        /\ {"reasoning_score", "judge_comments"} \subseteq
             DOMAIN evaluation_result
        /\ evaluation_result.reasoning_score = 25
        /\ (pc = "returned" /\ result.tests_passed) =>
             /\ qa_result.reasoning_score # 0
             /\ qa_result.tests_passed = 1

\* The endpoints' step run_qa_pipeline returns the Verdicts that the
\* pipeline returns.
PipelineReturnsVerdicts ==
    pc = "returned" => qa_result \in Verdicts(events)

\* C28: when run_qa_pipeline returns a Verdict to create_trace or to
\* finalize_trace and the trace is marked completed, the response is a
\* success carrying that Verdict, the degraded one (tests not passed,
\* score 0.0) included.
C28_DegradedVerdictInResponse ==
    [][(Runs' > Runs /\ pc' = "returned" /\ trace'.status = "completed") =>
          /\ http_response'.code \in {200, 201}
          /\ http_response'.qa_results.tests_passed = (qa_result'.tests_passed = 1)
          /\ http_response'.qa_results.reasoning_score =
               qa_result'.reasoning_score
          /\ http_response'.qa_results.judge_comments =
               qa_result'.judge_comments]_vars

\* C29: once run_qa_pipeline has been run for the trace and the trace is
\* completed, no request changes the events stored for it.
C29_EventsFrozenOnceSubmitted ==
    [][(Runs > 0 /\ trace.status = "completed") => events' = events]_vars

\* C30: once a QAResult is stored for the trace, no later request changes
\* or replaces it, and run_qa_pipeline is not run for the trace again.
C30_VerdictStoredOnceRunOnce ==
    [][stored # {} => (stored' = stored /\ Runs' = Runs)]_vars

\* C40: an evaluation sends at most two requests to the model: the
\* schema-constrained one, and the JSON-object one only after the
\* schema-constrained one failed with AttributeError; any other failure of
\* the first request ends in the neutral default with one request sent.
C40_AtMostTwoRequests ==
    Judged =>
        /\ Len(requests) <= 2
        /\ \A k \in DOMAIN requests :
             requests[k] = (IF k = 1 THEN "json_schema" ELSE "json_object")
        /\ Len(requests) = 2 => arg.t1.kind = "attribute_error"
        /\ (/\ arg.client = "ok"
            /\ \/ arg.t1.kind = "error"
               \/ arg.t1.kind = "content" /\ ~Loads(arg.t1.content).ok) =>
               /\ requests = <<"json_schema">>
               /\ evaluation_result.reasoning_score = 25
               /\ DOMAIN evaluation_result.detailed_scores = {}

\* The JSON-object request was sent and its score was returned.
C40_Witness ==
    /\ Judged
    /\ requests = <<"json_schema", "json_object">>
    /\ arg.t1.kind = "attribute_error"
    /\ arg.t2.kind = "content"
    /\ evaluation_result.reasoning_score = 30

\* C36: after the edit of a diff beginning with "@@" has been handled and
\* the patch file could be written and can be removed, no patch file is
\* left in the sandbox, whether git apply succeeded, exited non-zero or
\* could not be started.
C36_PatchFileRemoved ==
    (/\ pc = "done"
     /\ JsonLoads(arg.event.details).ok
     /\ Get(arg.event.details, "file", "") # ""
     /\ StartsWithHunk(Get(arg.event.details, "diff", <<>>))
     /\ arg.mk = "ok"
     /\ arg.pw = "ok"
     /\ arg.rm = "ok") =>
        ret.files[".patch"] = Absent

\* C38: when the clone and the build succeeded, a test candidate ran and
\* the model returned a well-formed result, the Verdict has the outcome of
\* the tests and the score and commentary of the judgment.
C38_SuccessVerdict ==
    (/\ pc = "returned"
     /\ Started("clone ok")
     /\ Started("build ok")
     /\ result.test_output = <<"stdout", "stderr">>
     /\ evaluation_result = FullObject(30, 30)) =>
        /\ qa_result.tests_passed = (IF result.tests_passed THEN 1 ELSE 0)
        /\ qa_result.reasoning_score = evaluation_result.reasoning_score
        /\ qa_result.judge_comments = evaluation_result.judge_comments

\* The directory or file a path names: ".." leaves the directory it
\* follows, and the root is its own parent.
RECURSIVE Resolved(_, _)
Resolved(path, at) ==
    IF path = <<>> THEN at
    ELSE IF Head(path) = "/" THEN Resolved(Tail(path), at)
    ELSE IF Head(path) = ".."
    THEN Resolved(Tail(path),
                  IF at = <<>> THEN at ELSE SubSeq(at, 1, Len(at) - 1))
    ELSE Resolved(Tail(path), Append(at, Head(path)))

\* The path names something inside the directory or the directory itself.
Inside(path, dir) ==
    LET p == Resolved(path, <<>>)
        d == Resolved(dir, <<>>)
    IN Len(p) >= Len(d) /\ SubSeq(p, 1, Len(d)) = d

\* C39: the file apply_diffs opens for writing and the directory it makes
\* for it lie inside the sandbox directory, for every file path ending in
\* a file name.
C39_WritesInsideSandbox ==
    (/\ pc = "done"
     /\ ~ret.skipped
     /\ arg[Len(arg)] = "a") =>
        /\ Inside(ret.open, SandboxDir)
        /\ Inside(ret.makedirs, SandboxDir)

\* The request of this step names a trace that is not stored.
UnknownTrace ==
    /\ arg'.op \in {"get_trace", "add_event", "finalize_trace"}
    /\ arg'.trace_id # trace.trace_id

\* C34: get_trace, add_event and finalize_trace for a trace_id that no
\* stored trace has answer 404 and leave the trace, its events and the QA
\* results as they were; no event is stored and no pipeline run is started.
C34_UnknownTraceNotFound ==
    [][UnknownTrace =>
         /\ http_response'.code = 404
         /\ trace' = trace
         /\ events' = events
         /\ stored' = stored
         /\ Runs' = Runs]_vars

\* add_event for another trace_id was answered 404 while a trace with
\* events is stored.
C34_Witness ==
    /\ trace.trace_id = "t"
    /\ events # <<>>
    /\ arg.op = "add_event"
    /\ arg.trace_id = "u"
    /\ http_response.code = 404

\* C37: finalize_trace runs the pipeline for a pending trace only; for a
\* stored trace of another status it answers 400 and leaves the trace, its
\* events and its QA result as they were; a completed trace stays
\* completed.
C37_FinalizePendingOnly ==
    [][/\ (arg'.op = "finalize_trace" /\ Runs' # Runs) =>
            trace.status = "pending"
       /\ (/\ arg'.op = "finalize_trace"
           /\ arg'.trace_id = trace.trace_id
           /\ trace.status # "pending") =>
              /\ http_response'.code = 400
              /\ trace' = trace
              /\ events' = events
              /\ stored' = stored
              /\ Runs' = Runs
       /\ trace.status = "completed" => trace'.status = "completed"
       /\ trace.status = "pending" =>
            trace'.status \in {"pending", "completed"}]_vars

\* finalize_trace was refused for a completed trace.
C37_Witness ==
    /\ trace.status = "completed"
    /\ arg.op = "finalize_trace"
    /\ arg.trace_id = "t"
    /\ http_response.code = 400
    /\ Runs = 1

C35_ReturnedEventsAreSubmitted ==
    [][(arg'.op = "get_trace" /\ arg'.trace_id = trace.trace_id) =>
          /\ http_response'.code = 200
          /\ http_response'.events = ret]_vars

\* The coroutine of a submitted evaluation can be started.
CanStart(e) == pc[e] = "submitted" /\ event_loop[worker[e]] = 0

\* C31: while an evaluation is in a blocking stage, every other evaluation
\* that has been submitted can be started.
C31_OthersProgressWhileBlocked ==
    \A e1, e2 \in Evaluations :
        (/\ e1 # e2
         /\ pc[e1] \in BlockingStages
         /\ pc[e2] = "submitted") => CanStart(e2)

\* The evaluation has made its sandbox directory and has not removed it.
Live(e) == pc[e] \in {"build", "test", "rmi", "rmtree"}

\* C32: two running evaluations whose sandbox directories exist have
\* different directories and, once both have built their image, different
\* image names; the name is that of the evaluation's own build.
C32_SandboxAndImageExclusive ==
    \A e1, e2 \in Evaluations :
        (e1 # e2 /\ Live(e1) /\ Live(e2)) =>
            /\ temp_dir[e1] # temp_dir[e2]
            /\ (image[e1] # None /\ image[e2] # None) =>
                   image[e1] # image[e2]

====
